---- MODULE Spec2Model ----
(***************************************************************************)
(* Fiscal invoice (NFS-e) subsystem of the Bun + Hono backend:             *)
(*   - CurrencyConversionService (src/src/services/currency-conversion...) *)
(*   - NFSeService, the invoice issuer (src/src/services/nfse.service.ts)  *)
(*   - FiscalNacionalClient, the tax API client (src/unnamed/part_006)     *)
(*   - the fiscal routes, in particular POST /webhook                      *)
(*     (src/src/routes/fiscal/index.ts)                                    *)
(*   - the tables user_tax_info and nfse (src/src/db/schema/fiscal.ts)     *)
(*                                                                         *)
(* Nullable columns and optional payload fields hold Null (<<>>) or        *)
(* Some(v) (<<v>>).  Money is in cents, exchange rates in 1/10000.         *)
(***************************************************************************)
EXTENDS Integers, Sequences, FiniteSets, TLC

\* ------------------------------------------------------------------ bounds
MaxTime == 1          \* the clock runs 0 .. MaxTime
MaxDeliveries == 2    \* webhook requests received in one behaviour
MaxIssuances == 1     \* issuance calls started in one behaviour
MaxLookupSteps == 9   \* official-rate lookups followed in one behaviour
MaxRetries == 1       \* issuance calls repeated for the same payment event
MaxClientCalls == 2   \* requests the tax API client sends in one behaviour

\* --------------------------------------------------------------- universes
Null == <<>>
Some(v) == <<v>>
Val(x) == x[1]

\* JavaScript truthiness of an optional string: undefined, null and "" are falsy.
Truthy(x) == x # Null /\ x # Some("")

Users == {1}
TaxSlots == {1, 2}
Deliveries == {1, 2}
Issuers == {1}
References == {"R1", "R2"}

\* ---------------------------------------------------------------- state
VARIABLES
    now,            \* the wall clock read by new Date()
    webhookSecret,  \* env.FISCAL_WEBHOOK_SECRET (optional)
    userTaxInfo,    \* table user_tax_info: user id -> row or Null (user_id is unique)
    nfse,           \* table nfse: the set of rows
    nfseSeq,        \* the serial behind nfse.id
    wh,             \* the POST /webhook requests in flight, per delivery slot
    lastWriter,     \* per reference: the delivery whose UPDATE changed its row last (0: none)
    received,       \* webhook requests received so far
    iss,            \* the issuance calls in flight, per issuer slot
    started,        \* issuance calls started so far
    ptax,           \* one getPTAXRate call: its recursion, step by step
    cvt,            \* one convertToBRL call: its lookups, step by step
    tax,            \* POST /tax-info: the serial behind user_tax_info.id, the last response
    users,          \* table users: the ids of its rows; the last admin DELETE response
    taxReq,         \* the POST /tax-info requests in flight, per slot
    client,         \* FiscalNacionalClient: the HTTP requests made, the last outcome
    sent            \* the CreateInvoice requests the issuer has sent, in order

vars ==
    <<now, webhookSecret, userTaxInfo, nfse, nfseSeq, wh, lastWriter, received, iss, started,
      ptax, cvt, tax, users, taxReq, client, sent>>


\* ------------------------------------------------------- webhook payloads
\* createHmac("sha256", secret).update(body).digest("hex"): 64 hex characters that
\* stand for the pair (secret, body); distinct pairs give distinct digests.
HexDigestLen == 64

createHmac(secret, body) == [len |-> HexDigestLen, key |-> secret, body |-> body]

\* The raw request body.  wellFormed = FALSE stands for a body that JSON.parse or
\* webhookSchema.parse rejects.
WebhookBody(ref, status, num, pdf, xml, err) ==
    [wellFormed |-> TRUE, reference |-> ref, status |-> status, nfse_number |-> num,
     pdf_url |-> pdf, xml_url |-> xml, error_message |-> err]

MalformedBody ==
    [wellFormed |-> FALSE, reference |-> "R1", status |-> "authorized", nfse_number |-> Null,
     pdf_url |-> Null, xml_url |-> Null, error_message |-> Null]

Bodies ==
    { WebhookBody(r, "authorized", Some("N1"), Some("P1"), Some("X1"), Null) : r \in References }
    \cup { WebhookBody(r, "authorized", Null, Null, Null, Null) : r \in References }
    \cup { WebhookBody("R1", "authorized", Some(""), Null, Null, Null) }
    \cup { WebhookBody(r, "error", Null, Null, Null, Some("E1")) : r \in References }
    \cup { WebhookBody(r, "error", Null, Null, Null, Null) : r \in References }
    \cup { WebhookBody(r, "cancelled", Null, Null, Null, Null) : r \in References }
    \cup { WebhookBody(r, "archived", Null, Null, Null, Null) : r \in References }
    \cup { MalformedBody }

\* A body an attacker signed validly and then changed.
Tampered(body) == [body EXCEPT !.status = IF @ = "cancelled" THEN "authorized" ELSE "cancelled"]

Secrets == {Null, Some(""), Some("k1")}

\* X-Fiscal-Signature values tried against a body: absent, the right digest, a digest
\* under another key, the digest of the body before tampering, a truncated digest.
Signatures(body) ==
    { Null,
      Some(createHmac("k1", body)),
      Some(createHmac("", body)),
      Some(createHmac("k2", body)),
      Some(createHmac("k1", Tampered(body))),
      Some([createHmac("k1", body) EXCEPT !.len = 8]) }

\* webhookSchema.parse(JSON.parse(body)): the fields of the schema, or a throw.
ParseError == [error |-> "parse"]
ParseWebhook(body) ==
    IF body.wellFormed
    THEN [reference |-> body.reference, status |-> body.status,
          nfse_number |-> body.nfse_number, pdf_url |-> body.pdf_url,
          xml_url |-> body.xml_url, error_message |-> body.error_message]
    ELSE ParseError

\* (variant: only the lengths of the two buffers are compared)
SignatureValidLengthOnly(signature, secret, body) ==
    /\ signature # Null
    /\ Truthy(secret)
    /\ Val(signature).len = createHmac(Val(secret), body).len

\* The signature check of POST /webhook: TRUE when the request is authenticated.
SignatureValid(signature, secret, body) ==
    /\ signature # Null
    /\ Truthy(secret)
    /\ LET expected == createHmac(Val(secret), body)
       IN  /\ Val(signature).len = expected.len
           /\ Val(signature) = expected

\* updateData of the handler: the columns the UPDATE statement sets.
Field(name, value) == name :> value
OptionalField(present, name, value) == IF present THEN name :> value ELSE <<>>

\* (variant: the three document fields are written whether present or not)
BuildUpdateDataUnconditional(data, t) ==
    Field("status", data.status) @@ Field("updatedAt", Some(t))
    @@ (IF data.status = "authorized"
        THEN Field("issuedAt", Some(t)) @@ Field("nfseNumber", data.nfse_number)
             @@ Field("pdfUrl", data.pdf_url) @@ Field("xmlUrl", data.xml_url)
        ELSE <<>>)
    @@ (IF data.status = "error"
        THEN Field("errorMessage",
                   IF Truthy(data.error_message) THEN data.error_message
                   ELSE Some("Unknown error"))
        ELSE <<>>)
    @@ (IF data.status = "cancelled" THEN Field("cancelledAt", Some(t)) ELSE <<>>)

\* (variant: the error message is written as the payload has it, absent included)
BuildUpdateDataNoDefault(data, t) ==
    Field("status", data.status) @@ Field("updatedAt", Some(t))
    @@ (IF data.status = "authorized"
        THEN Field("issuedAt", Some(t))
             @@ OptionalField(Truthy(data.nfse_number), "nfseNumber", data.nfse_number)
             @@ OptionalField(Truthy(data.pdf_url), "pdfUrl", data.pdf_url)
             @@ OptionalField(Truthy(data.xml_url), "xmlUrl", data.xml_url)
        ELSE <<>>)
    @@ (IF data.status = "error" THEN Field("errorMessage", data.error_message) ELSE <<>>)
    @@ (IF data.status = "cancelled" THEN Field("cancelledAt", Some(t)) ELSE <<>>)

\* (variant: a cancellation writes the status only)
BuildUpdateDataStatusOnly(data, t) ==
    Field("status", data.status) @@ Field("updatedAt", Some(t))
    @@ (IF data.status = "authorized"
        THEN Field("issuedAt", Some(t))
             @@ OptionalField(Truthy(data.nfse_number), "nfseNumber", data.nfse_number)
             @@ OptionalField(Truthy(data.pdf_url), "pdfUrl", data.pdf_url)
             @@ OptionalField(Truthy(data.xml_url), "xmlUrl", data.xml_url)
        ELSE <<>>)
    @@ (IF data.status = "error"
        THEN Field("errorMessage",
                   IF Truthy(data.error_message) THEN data.error_message
                   ELSE Some("Unknown error"))
        ELSE <<>>)

BuildUpdateData(data, t) ==
    Field("status", data.status) @@ Field("updatedAt", Some(t))
    @@ (IF data.status = "authorized"
        THEN Field("issuedAt", Some(t))
             @@ OptionalField(Truthy(data.nfse_number), "nfseNumber", data.nfse_number)
             @@ OptionalField(Truthy(data.pdf_url), "pdfUrl", data.pdf_url)
             @@ OptionalField(Truthy(data.xml_url), "xmlUrl", data.xml_url)
        ELSE <<>>)
    @@ (IF data.status = "error"
        THEN Field("errorMessage",
                   IF Truthy(data.error_message) THEN data.error_message
                   ELSE Some("Unknown error"))
        ELSE <<>>)
    @@ (IF data.status = "cancelled" THEN Field("cancelledAt", Some(t)) ELSE <<>>)

\* (variant: the row is replaced, so the reconciler's columns that updateData does
\* not name fall back to NULL)
ApplySetReplacing(row, updateData) ==
    [c \in DOMAIN row |->
        IF c \in DOMAIN updateData THEN updateData[c]
        ELSE IF c \in {"nfseNumber", "pdfUrl", "xmlUrl", "errorMessage", "issuedAt", "cancelledAt"}
        THEN Null
        ELSE row[c]]

\* UPDATE nfse SET <updateData> on one row: the named columns change, the rest stay.
ApplySet(row, updateData) ==
    [c \in DOMAIN row |-> IF c \in DOMAIN updateData THEN updateData[c] ELSE row[c]]

\* (variant: the statement has no WHERE clause)
DbUpdateNfseAllRows(table, reference, updateData) ==
    { ApplySet(r, updateData) : r \in table }

\* UPDATE nfse SET <updateData> WHERE fiscal_nacional_reference = <reference>:
\* one statement, applied to the table atomically.
DbUpdateNfse(table, reference, updateData) ==
    { IF r.fiscalNacionalReference = reference THEN ApplySet(r, updateData) ELSE r : r \in table }

IdleDelivery ==
    [pc |-> "idle", signature |-> Null, body |-> MalformedBody, at |-> 0,
     updateData |-> <<>>, response |-> 0]


\* ------------------------------------------------------------ tax profiles
\* Rows of user_tax_info.  The schema makes only user_id, country, is_brazilian and
\* full_name NOT NULL; the issuer reads whatever row the database handle yields.
TaxInfoRow(id, userId, country, isBrazilian, cpfCnpj, nif, fullName, addr, postalCode) ==
    [id |-> id, userId |-> userId, country |-> country, isBrazilian |-> isBrazilian,
     cpfCnpj |-> cpfCnpj, nif |-> nif, fullName |-> fullName,
     address |-> addr, number |-> addr, complement |-> Null, neighborhood |-> addr,
     city |-> addr, cityCode |-> addr, state |-> addr, postalCode |-> postalCode]

\* A postal code is its characters, so that stripping the non-digits is computed.
Cep == <<"0", "1", "-", "9">>

StoredProfiles(u) ==
    { TaxInfoRow(u, u, "BR", TRUE, Some("12345678901"), Null, "Ana", Some("a"), Some(Cep)),
      TaxInfoRow(u, u, "BR", TRUE, Null, Null, "Ana", Some("a"), Some(Cep)),
      TaxInfoRow(u, u, "BR", TRUE, Null, Null, "Ana", Some("a"), Null),
      TaxInfoRow(u, u, "US", FALSE, Null, Some("NIF1"), "Bob", Null, Null) }

\* The JSON body of POST /tax-info after createTaxInfoSchema: country, isBrazilian
\* and fullName are required, every other key is optional (Null: absent).
\* internationalAddress is accepted by the schema but is no column of the table.
TaxInfoData(country, isBrazilian, cpfCnpj, nif, fullName, addr, cityCode, postalCode) ==
    [country |-> country, isBrazilian |-> isBrazilian, cpfCnpj |-> cpfCnpj, nif |-> nif,
     fullName |-> fullName, address |-> addr, number |-> addr, complement |-> Null,
     neighborhood |-> addr, city |-> addr, cityCode |-> cityCode, state |-> addr,
     postalCode |-> postalCode, internationalAddress |-> Null]

TaxInfoInputs ==
    { TaxInfoData("BR", TRUE, Some("12345678000199"), Null, "Ana Maria", Some("b"), Some("3550308"),
                  Some(Cep)),
      TaxInfoData("BR", TRUE, Null, Null, "Ana", Some("a"), Some("3550308"), Some(Cep)),
      TaxInfoData("BR", TRUE, Some("12345678901"), Null, "Ana", Some("a"), Null, Null),
      TaxInfoData("BR", TRUE, Some("12345678901"), Null, "Ana Lia", Some("a"), Some("3550308"), Null),
      TaxInfoData("US", FALSE, Null, Some("NIF1"), "Bob", Null, Null, Null),
      TaxInfoData("US", FALSE, Null, Some("NIF1"), "", Null, Null, Null) }

\* A POST /tax-info request between its SELECT and its write.
IdleTaxReq ==
    [pc |-> "idle", userId |-> 1, data |-> CHOOSE d \in TaxInfoInputs : TRUE,
     existing |-> Null, response |-> 0]

\* ------------------------------------------------------ currency resolver
FallbackDefault == 55000
FALLBACK_RATES ==
    [USD |-> 55000, EUR |-> 60000, GBP |-> 70000, CAD |-> 40000, AUD |-> 35000,
     JPY |-> 370, CHF |-> 62000]

\* String.prototype.toUpperCase on the currency codes in use.
ToUpperCase(c) ==
    CASE c = "usd" -> "USD"
      [] c = "brl" -> "BRL"
      [] c = "eur" -> "EUR"
      [] OTHER -> c

getFallbackRate(currency) ==
    IF ToUpperCase(currency) \in DOMAIN FALLBACK_RATES
    THEN FALLBACK_RATES[ToUpperCase(currency)]
    ELSE FallbackDefault

\* What the payment processor and the official-rate service can answer.
\* A settlement: amounts in cents; Null: no settlement, or the lookup failed.
StripeOutcomes ==
    { Null, Some([grossAmount |-> 29700, fee |-> 1200, net |-> 28500, chargeAmount |-> 5500]) }
PtaxOutcomes == { Null, Some([buyRate |-> 53900, sellRate |-> 54000, date |-> "quote-day"]) }

\* getStripeBalanceInfo: the settlement as BRL amounts (1/1000000 BRL) and its rate.
StripeBalanceInfo(st, currency) ==
    [grossAmountBrl |-> st.grossAmount * 10000, feesBrl |-> st.fee * 10000,
     netAmountBrl |-> st.net * 10000,
     exchangeRate |-> IF currency # "BRL" THEN (st.grossAmount * 10000) \div st.chargeAmount
                      ELSE 10000]

\* Number.prototype.toFixed of a non-negative number held as an integer count of
\* 10^-digits units: the integer part, a point, the fraction padded with zeros.
RECURSIVE Pow10(_)
Pow10(n) == IF n = 0 THEN 1 ELSE 10 * Pow10(n - 1)

RECURSIVE PadStart(_, _)
PadStart(str, width) == IF Len(str) >= width THEN str ELSE PadStart("0" \o str, width)

toFixed(units, digits) ==
    ToString(units \div Pow10(digits)) \o "." \o PadStart(ToString(units % Pow10(digits)), digits)

\* CURRENCIES.find(c => c.code === currency)?.symbol || currency
CurrencySymbol(currency) ==
    CASE currency = "USD" -> "$"
      [] currency = "EUR" -> "€"
      [] currency = "GBP" -> "£"
      [] currency = "CAD" -> "C$"
      [] currency = "AUD" -> "A$"
      [] currency = "JPY" -> "¥"
      [] currency = "CHF" -> "CHF"
      [] currency = "BRL" -> "R$"
      [] OTHER -> currency

sourceLabels ==
    [stripe_balance |-> "Taxa de Conversão Stripe", ptax |-> "Taxa PTAX (Banco Central)",
     fallback |-> "Taxa de Conversão Estimada"]

\* originalAmount in cents, rate in 1/10000, fees in 1/1000000 BRL (rounded to cents
\* by toFixed(2)).
buildAuditDescription(originalAmount, currency, rate, source, fees) ==
    "Valor original: " \o CurrencySymbol(currency) \o toFixed(originalAmount, 2) \o " - "
        \o sourceLabels[source] \o ": R$ " \o toFixed(rate, 4)
        \o (IF fees > 0
            THEN " - Taxas operacionais: R$ " \o toFixed((fees + 5000) \div 10000, 2)
            ELSE "")

ConversionResult(amountBrl, amount, currency, rate, source, rateDate, fees) ==
    [amountBrl |-> amountBrl, originalAmount |-> amount, originalCurrency |-> currency,
     exchangeRate |-> rate, source |-> source, rateDate |-> rateDate,
     auditDescription |->
        IF currency = "BRL" THEN "Pagamento em BRL - sem conversão necessária"
        ELSE buildAuditDescription(amount, currency, rate, source, fees)]

\* (variant: BRL is recognised in upper case only)
convertToBRLCaseSensitive(amount, currency, chargeId, paymentIntentId, byCharge, byIntent, ptaxRate) ==
    LET currencyUpper == ToUpperCase(currency)
        fromStripe(st) ==
            LET info == StripeBalanceInfo(Val(st), currencyUpper)
            IN  ConversionResult(info.grossAmountBrl, amount, currencyUpper, info.exchangeRate,
                                 "stripe_balance", "today", info.feesBrl)
    IN  IF currency = "BRL"
        THEN ConversionResult(amount * 10000, amount, "BRL", 10000, "stripe_balance", "now", 0)
        ELSE IF Truthy(chargeId) /\ byCharge # Null THEN fromStripe(byCharge)
        ELSE IF Truthy(paymentIntentId) /\ byIntent # Null THEN fromStripe(byIntent)
        ELSE IF ptaxRate # Null
        THEN ConversionResult(amount * Val(ptaxRate).sellRate, amount, currencyUpper,
                              Val(ptaxRate).sellRate, "ptax", Val(ptaxRate).date, 0)
        ELSE ConversionResult(amount * getFallbackRate(currencyUpper), amount, currencyUpper,
                              getFallbackRate(currencyUpper), "fallback", "today", 0)

\* (variant: the official quote is applied at its buy rate)
convertToBRLBuyRate(amount, currency, chargeId, paymentIntentId, byCharge, byIntent, ptaxRate) ==
    LET currencyUpper == ToUpperCase(currency)
        fromStripe(st) ==
            LET info == StripeBalanceInfo(Val(st), currencyUpper)
            IN  ConversionResult(info.grossAmountBrl, amount, currencyUpper, info.exchangeRate,
                                 "stripe_balance", "today", info.feesBrl)
    IN  IF currencyUpper = "BRL"
        THEN ConversionResult(amount * 10000, amount, "BRL", 10000, "stripe_balance", "now", 0)
        ELSE IF Truthy(chargeId) /\ byCharge # Null THEN fromStripe(byCharge)
        ELSE IF Truthy(paymentIntentId) /\ byIntent # Null THEN fromStripe(byIntent)
        ELSE IF ptaxRate # Null
        THEN ConversionResult(amount * Val(ptaxRate).buyRate, amount, currencyUpper,
                              Val(ptaxRate).buyRate, "ptax", Val(ptaxRate).date, 0)
        ELSE ConversionResult(amount * getFallbackRate(currencyUpper), amount, currencyUpper,
                              getFallbackRate(currencyUpper), "fallback", "today", 0)

\* convertToBRL; byCharge, byIntent and ptaxRate are what the three lookups answer
\* when the resolver makes them.
convertToBRL(amount, currency, chargeId, paymentIntentId, byCharge, byIntent, ptaxRate) ==
    LET currencyUpper == ToUpperCase(currency)
        fromStripe(st) ==
            LET info == StripeBalanceInfo(Val(st), currencyUpper)
            IN  ConversionResult(info.grossAmountBrl, amount, currencyUpper, info.exchangeRate,
                                 "stripe_balance", "today", info.feesBrl)
    IN  IF currencyUpper = "BRL"
        THEN ConversionResult(amount * 10000, amount, "BRL", 10000, "stripe_balance", "now", 0)
        ELSE IF Truthy(chargeId) /\ byCharge # Null THEN fromStripe(byCharge)
        ELSE IF Truthy(paymentIntentId) /\ byIntent # Null THEN fromStripe(byIntent)
        ELSE IF ptaxRate # Null
        THEN ConversionResult(amount * Val(ptaxRate).sellRate, amount, currencyUpper,
                              Val(ptaxRate).sellRate, "ptax", Val(ptaxRate).date, 0)
        ELSE ConversionResult(amount * getFallbackRate(currencyUpper), amount, currencyUpper,
                              getFallbackRate(currencyUpper), "fallback", "today", 0)


\* ---------------------------------------------------------- invoice issuer
TypeError == [error |-> "TypeError"]

IsDigit(ch) == ch \in {"0", "1", "2", "3", "4", "5", "6", "7", "8", "9"}
\* postalCode.replace(/\D/g, "")
StripNonDigits(chars) == SelectSeq(chars, IsDigit)

\* Length of a tax document string (CPF: 11 digits, CNPJ: 14).
DocLength(doc) == IF doc = "12345678901" THEN 11 ELSE 14

\* _buildTomadorFromTaxInfo.  Reading a property of null throws a TypeError:
\* taxInfo.postalCode!.replace(...) and, when fullName is empty, taxInfo.cpfCnpj!.length.
\* Every other missing field is copied into the payload as it is.
buildTomadorFromTaxInfo(taxInfo, email) ==
    IF taxInfo.isBrazilian
    THEN IF (taxInfo.fullName = "" /\ taxInfo.cpfCnpj = Null) \/ taxInfo.postalCode = Null
         THEN TypeError
         ELSE [cpfCnpj |-> taxInfo.cpfCnpj,
               nomeRazaoSocial |->
                  IF taxInfo.fullName # "" THEN <<taxInfo.fullName>>
                  ELSE <<IF DocLength(Val(taxInfo.cpfCnpj)) <= 11 THEN "CPF" ELSE "CNPJ",
                         Val(taxInfo.cpfCnpj)>>,
               email |-> email,
               endereco |-> Some([logradouro |-> taxInfo.address, numero |-> taxInfo.number,
                                  complemento |-> taxInfo.complement,
                                  bairro |-> taxInfo.neighborhood,
                                  codigoMunicipio |-> taxInfo.cityCode, uf |-> taxInfo.state,
                                  cep |-> StripNonDigits(Val(taxInfo.postalCode))]),
               pais |-> Null, nif |-> Null, enderecoExterior |-> Null]
    ELSE [cpfCnpj |-> Null,
          nomeRazaoSocial |-> <<taxInfo.fullName>>,
          email |-> email,
          endereco |-> Null,
          pais |-> Some(taxInfo.country),
          nif |-> IF Truthy(taxInfo.nif) THEN taxInfo.nif ELSE Null,
          enderecoExterior |->
              LET parts == SelectSeq(<<taxInfo.address, taxInfo.city>>, Truthy)
                           \o (IF taxInfo.postalCode # Null /\ taxInfo.postalCode # Some(<<>>)
                               THEN <<taxInfo.postalCode>> ELSE <<>>)
              IN  IF parts = <<>> THEN Null ELSE Some(parts)]

\* _buildServiceDescription: four lines joined by a line feed.
buildServiceDescription(productName, amount, currency, exchangeRate, source) ==
    "Serviço: " \o productName \o "\n"
        \o "Valor Original: " \o toFixed(amount, 2) \o " " \o currency \o "\n"
        \o "Taxa de Câmbio: " \o toFixed(exchangeRate, 4) \o "\n"
        \o "Fonte: " \o source

\* The calls an issuer makes.  A credit purchase always has a payment intent.
IssueParams ==
    [kind : {"subscription"}, userId : Users, stripeSubscriptionId : {"sub_1"},
     stripeChargeId : {Null, Some("ch_1")}, stripePaymentIntentId : {Null},
     amount : {5500}, currency : {"USD", "BRL"}, productName : {"Pro"},
     userEmail : {"u@x"}]
    \cup
    [kind : {"credit_purchase"}, userId : Users, stripeSubscriptionId : {"none"},
     stripeChargeId : {Null}, stripePaymentIntentId : {Some("pi_1")},
     amount : {5500}, currency : {"USD"}, productName : {"100 Credits"},
     userEmail : {"u@x"}]

\* (variant: the amount is part of the reference)
ExternalReferenceWithAmount(params) ==
    "user_" \o ToString(params.userId) \o "_" \o ToString(params.amount)

\* externalReference of the two issuance operations.
ExternalReference(params) ==
    IF params.kind = "subscription"
    THEN "user_" \o ToString(params.userId) \o "_sub_" \o params.stripeSubscriptionId
    ELSE "user_" \o ToString(params.userId) \o "_credits_" \o Val(params.stripePaymentIntentId)

\* The CreateInvoice request of an issuance, as far as it depends on the call, and
\* the call and clock reading it was built from.
CreateRequest(params, conversion, t) ==
    [params |-> params, at |-> t,
     servico |-> [valorServicos |-> conversion.amountBrl,
                  discriminacao |-> buildServiceDescription(params.productName, params.amount,
                                                            params.currency,
                                                            conversion.exchangeRate,
                                                            conversion.source)],
     referenciaExterna |-> ExternalReference(params)]

\* What the tax API answers to CreateInvoice: a non-2xx response with a message, or
\* the provider's reference and initial status.
ProviderStatuses == {"processing", "authorized"}
ApiOutcomes ==
    { [ok |-> FALSE, message |-> "rejected", reference |-> "R1", status |-> "error",
       nfseNumber |-> Null, pdfUrl |-> Null, xmlUrl |-> Null] }
    \cup [ok : {TRUE}, message : {""}, reference : References, status : ProviderStatuses,
          nfseNumber : {Null}, pdfUrl : {Null}, xmlUrl : {Null}]

\* (variant: the status column is left to its default)
NfseValuesDefaultStatus(id, params, taxInfo, conversion, serviceDescription, fiscalResponse, t) ==
    [id |-> id, userId |-> params.userId, taxInfoId |-> taxInfo.id,
     fiscalNacionalReference |-> fiscalResponse.reference,
     transactionType |-> params.kind, status |-> "processing",
     productName |-> params.productName, serviceDescription |-> serviceDescription,
     valueBrl |-> conversion.amountBrl,
     valueUsd |-> IF params.currency = "USD" THEN Some(params.amount) ELSE Null,
     originalAmount |-> params.amount, originalCurrency |-> params.currency,
     exchangeRate |-> conversion.exchangeRate, issRate |-> 200, issValue |-> 0,
     customerName |-> taxInfo.fullName, customerEmail |-> params.userEmail,
     customerCountry |-> taxInfo.country,
     customerDocument |-> IF Truthy(taxInfo.cpfCnpj) THEN taxInfo.cpfCnpj
                          ELSE IF Truthy(taxInfo.nif) THEN taxInfo.nif ELSE Null,
     nfseNumber |-> IF Truthy(fiscalResponse.nfseNumber) THEN fiscalResponse.nfseNumber ELSE Null,
     pdfUrl |-> IF Truthy(fiscalResponse.pdfUrl) THEN fiscalResponse.pdfUrl ELSE Null,
     xmlUrl |-> IF Truthy(fiscalResponse.xmlUrl) THEN fiscalResponse.xmlUrl ELSE Null,
     errorMessage |-> Null, issuedAt |-> Null, cancelledAt |-> Null, updatedAt |-> Some(t)]

\* The tax API client before its first invocation.  calls lists the HTTP requests
\* of the client's life, attempts counts those of the current invocation.
NoResponse == [ok |-> TRUE, statusText |-> "", json |-> FALSE, message |-> Null, status |-> ""]
NoOutcome == [threw |-> FALSE, error |-> <<>>, value |-> Null]
IdleClient ==
    [pc |-> "idle", op |-> "none", reference |-> "R1", attempts |-> 0, calls |-> <<>>,
     response |-> NoResponse, outcome |-> NoOutcome]

\* The values of the INSERT into nfse, with the column defaults of the schema.
NfseValues(id, params, taxInfo, conversion, serviceDescription, fiscalResponse, t) ==
    [id |-> id, userId |-> params.userId, taxInfoId |-> taxInfo.id,
     fiscalNacionalReference |-> fiscalResponse.reference,
     transactionType |-> params.kind, status |-> fiscalResponse.status,
     productName |-> params.productName, serviceDescription |-> serviceDescription,
     valueBrl |-> conversion.amountBrl,
     valueUsd |-> IF params.currency = "USD" THEN Some(params.amount) ELSE Null,
     originalAmount |-> params.amount, originalCurrency |-> params.currency,
     exchangeRate |-> conversion.exchangeRate, issRate |-> 200, issValue |-> 0,
     customerName |-> taxInfo.fullName, customerEmail |-> params.userEmail,
     customerCountry |-> taxInfo.country,
     customerDocument |-> IF Truthy(taxInfo.cpfCnpj) THEN taxInfo.cpfCnpj
                          ELSE IF Truthy(taxInfo.nif) THEN taxInfo.nif ELSE Null,
     nfseNumber |-> IF Truthy(fiscalResponse.nfseNumber) THEN fiscalResponse.nfseNumber ELSE Null,
     pdfUrl |-> IF Truthy(fiscalResponse.pdfUrl) THEN fiscalResponse.pdfUrl ELSE Null,
     xmlUrl |-> IF Truthy(fiscalResponse.xmlUrl) THEN fiscalResponse.xmlUrl ELSE Null,
     errorMessage |-> Null, issuedAt |-> Null, cancelledAt |-> Null, updatedAt |-> Some(t)]

\* (variant: the column carries no unique constraint)
ReferenceTakenNever(table, reference) == FALSE

\* The unique constraint on nfse.fiscal_nacional_reference.
ReferenceTaken(table, reference) == \E r \in table : r.fiscalNacionalReference = reference

IdleIssuer ==
    [pc |-> "idle", params |-> CHOOSE p \in IssueParams : TRUE, taxInfo |-> Null,
     conversion |-> Null, fiscalResponse |-> Null, convertCalls |-> 0, apiCalls |-> 0,
     error |-> <<>>, result |-> 0]


MissingTaxInfo == <<"User tax information not found">>
TomadorFailure == <<"TypeError: null is not an object">>
DuplicateReference == <<"duplicate key value violates unique constraint">>
ForeignKeyViolation == <<"insert or update violates foreign key constraint">>

\* nfse.user_id references users.id, nfse.tax_info_id references user_tax_info.id.
ForeignKeysHold(row) ==
    /\ row.userId \in users.ids
    /\ \E u \in Users : \E k \in 1 .. Len(userTaxInfo[u]) : userTaxInfo[u][k].id = row.taxInfoId
ApiFailure(message) == <<"Failed to create NFS-e: ", message>>

\* (variant: the missing profile is noticed only after the conversion)
IssuerLoadTaxInfoLate(i, params) ==
    /\ iss[i].pc \in {"idle", "done", "failed"}
    /\ started < MaxIssuances
    /\ started' = started + 1
    /\ iss' = [iss EXCEPT ![i] =
                 IF userTaxInfo[params.userId] = Null
                 THEN [IdleIssuer EXCEPT !.pc = "failed", !.params = params,
                                         !.convertCalls = 1, !.error = MissingTaxInfo]
                 ELSE [IdleIssuer EXCEPT !.pc = "convert", !.params = params,
                                         !.taxInfo = userTaxInfo[params.userId]]]
    /\ UNCHANGED <<now, webhookSecret, userTaxInfo, nfse, nfseSeq, wh, lastWriter, received, ptax, cvt, tax,
                   users, taxReq, client, sent>>

\* Lines 52-60 / 150-158: the call starts, selects the user's tax info and throws
\* when there is none.
IssuerLoadTaxInfo(i, params) ==
    /\ iss[i].pc \in {"idle", "done", "failed"}
    /\ started < MaxIssuances
    /\ started' = started + 1
    /\ iss' = [iss EXCEPT ![i] =
                 IF userTaxInfo[params.userId] = Null
                 THEN [IdleIssuer EXCEPT !.pc = "failed", !.params = params,
                                         !.error = MissingTaxInfo]
                 ELSE [IdleIssuer EXCEPT !.pc = "convert", !.params = params,
                                         !.taxInfo = userTaxInfo[params.userId]]]
    /\ UNCHANGED <<now, webhookSecret, userTaxInfo, nfse, nfseSeq, wh, lastWriter, received, ptax, cvt, tax,
                   users, taxReq, client, sent>>

\* The caller repeats the issuance for the same payment event (a redelivered
\* payment notification): the same call, with the same parameters.
IssuerRetry(i) ==
    /\ iss[i].pc \in {"done", "failed"}
    /\ started < MaxIssuances + MaxRetries
    /\ started' = started + 1
    /\ iss' = [iss EXCEPT ![i] =
                 IF userTaxInfo[iss[i].params.userId] = Null
                 THEN [IdleIssuer EXCEPT !.pc = "failed", !.params = iss[i].params,
                                         !.error = MissingTaxInfo]
                 ELSE [IdleIssuer EXCEPT !.pc = "convert", !.params = iss[i].params,
                                         !.taxInfo = userTaxInfo[iss[i].params.userId]]]
    /\ UNCHANGED <<now, webhookSecret, userTaxInfo, nfse, nfseSeq, wh, lastWriter, received, ptax,
                   cvt, tax, users, taxReq, client, sent>>

\* The caller issues again for the subscription or payment intent of the previous
\* call (a renewal, a corrected charge): the same identifiers, any amount and
\* currency.
IssuerReissue(i, params) ==
    /\ iss[i].pc \in {"done", "failed"}
    /\ params.kind = iss[i].params.kind
    /\ params.userId = iss[i].params.userId
    /\ params.stripeSubscriptionId = iss[i].params.stripeSubscriptionId
    /\ params.stripePaymentIntentId = iss[i].params.stripePaymentIntentId
    /\ started < MaxIssuances + MaxRetries
    /\ started' = started + 1
    /\ iss' = [iss EXCEPT ![i] =
                 IF userTaxInfo[params.userId] = Null
                 THEN [IdleIssuer EXCEPT !.pc = "failed", !.params = params,
                                         !.error = MissingTaxInfo]
                 ELSE [IdleIssuer EXCEPT !.pc = "convert", !.params = params,
                                         !.taxInfo = userTaxInfo[params.userId]]]
    /\ UNCHANGED <<now, webhookSecret, userTaxInfo, nfse, nfseSeq, wh, lastWriter, received, ptax,
                   cvt, tax, users, taxReq, client, sent>>

\* Lines 63-68 / 161-166: the currency resolver answers.
IssuerConvert(i, byCharge, byIntent, ptaxRate) ==
    /\ iss[i].pc = "convert"
    /\ LET p == iss[i].params
       IN  iss' = [iss EXCEPT ![i].pc = "submit",
                              ![i].convertCalls = @ + 1,
                              ![i].conversion =
                                  Some(convertToBRL(p.amount, p.currency, p.stripeChargeId,
                                                    p.stripePaymentIntentId, byCharge, byIntent,
                                                    ptaxRate))]
    /\ UNCHANGED <<now, webhookSecret, userTaxInfo, nfse, nfseSeq, wh, lastWriter, received,
                   started, ptax, cvt, tax, users, taxReq, client, sent>>

\* (variant: the row is written before the tax API is asked, and stays when it refuses)
IssuerSubmitPersistFirst(i, outcome) ==
    /\ iss[i].pc = "submit"
    /\ LET p == iss[i].params
           conv == Val(iss[i].conversion)
           draft == NfseValues(nfseSeq + 1, p, Val(iss[i].taxInfo), conv,
                               buildServiceDescription(p.productName, p.amount, p.currency,
                                                       conv.exchangeRate, conv.source),
                               [outcome EXCEPT !.status = "processing"], now)
       IN  IF buildTomadorFromTaxInfo(Val(iss[i].taxInfo), p.userEmail) = TypeError
           THEN /\ iss' = [iss EXCEPT ![i].pc = "failed", ![i].error = TomadorFailure]
                /\ nfse' = nfse
           ELSE IF ~outcome.ok
           THEN /\ iss' = [iss EXCEPT ![i].pc = "failed", ![i].apiCalls = @ + 1,
                                      ![i].error = ApiFailure(outcome.message)]
                /\ nfse' = nfse \cup {draft}
           ELSE /\ iss' = [iss EXCEPT ![i].pc = "insert", ![i].apiCalls = @ + 1,
                                      ![i].fiscalResponse = Some(outcome)]
                /\ nfse' = nfse
    /\ sent' = IF buildTomadorFromTaxInfo(Val(iss[i].taxInfo), iss[i].params.userEmail) = TypeError
               THEN sent
               ELSE Append(sent, CreateRequest(iss[i].params, Val(iss[i].conversion), now))
    /\ UNCHANGED <<now, webhookSecret, userTaxInfo, nfseSeq, wh, lastWriter, received,
                   started, ptax, cvt, tax, users, taxReq, client>>

\* Lines 71-95 / 169-193: description, externalReference, tomador, then the one
\* request to the tax API; createNFSe throws on a non-2xx response.
IssuerSubmit(i, outcome) ==
    /\ iss[i].pc = "submit"
    /\ LET tomador == buildTomadorFromTaxInfo(Val(iss[i].taxInfo), iss[i].params.userEmail)
       IN  /\ iss' = [iss EXCEPT ![i] =
                     IF tomador = TypeError
                     THEN [@ EXCEPT !.pc = "failed", !.error = TomadorFailure]
                     ELSE IF ~outcome.ok
                     THEN [@ EXCEPT !.pc = "failed", !.apiCalls = @ + 1,
                                    !.error = ApiFailure(outcome.message)]
                     ELSE [@ EXCEPT !.pc = "insert", !.apiCalls = @ + 1,
                                    !.fiscalResponse = Some(outcome)]]
           /\ sent' = IF tomador = TypeError THEN sent
                      ELSE Append(sent, CreateRequest(iss[i].params, Val(iss[i].conversion), now))
    /\ UNCHANGED <<now, webhookSecret, userTaxInfo, nfse, nfseSeq, wh, lastWriter, received,
                   started, ptax, cvt, tax, users, taxReq, client>>

\* (variant: on a taken reference the INSERT overwrites the stored row)
IssuerInsertUpserting(i) ==
    /\ iss[i].pc = "insert"
    /\ nfseSeq' = nfseSeq + 1
    /\ LET p == iss[i].params
           conv == Val(iss[i].conversion)
           row == NfseValues(nfseSeq + 1, p, Val(iss[i].taxInfo), conv,
                             buildServiceDescription(p.productName, p.amount, p.currency,
                                                     conv.exchangeRate, conv.source),
                             Val(iss[i].fiscalResponse), now)
       IN  /\ iss' = [iss EXCEPT ![i].pc = "done", ![i].result = row.id]
           /\ nfse' = {r \in nfse : r.fiscalNacionalReference # row.fiscalNacionalReference}
                         \cup {row}
    /\ UNCHANGED <<now, webhookSecret, userTaxInfo, wh, lastWriter, received, started, ptax, cvt, tax,
                   users, taxReq, client, sent>>

\* (variant: the INSERT applies the webhook that was acknowledged for the row's
\* reference before the row existed)
IssuerInsertReplaying(i) ==
    /\ iss[i].pc = "insert"
    /\ nfseSeq' = nfseSeq + 1
    /\ LET p == iss[i].params
           conv == Val(iss[i].conversion)
           base == NfseValues(nfseSeq + 1, p, Val(iss[i].taxInfo), conv,
                              buildServiceDescription(p.productName, p.amount, p.currency,
                                                      conv.exchangeRate, conv.source),
                              Val(iss[i].fiscalResponse), now)
           early == {d \in Deliveries : /\ wh[d].pc = "done" /\ wh[d].response = 200
                                         /\ wh[d].body.reference = base.fiscalNacionalReference}
           row == IF early = {} THEN base
                  ELSE ApplySet(base, wh[CHOOSE d \in early : TRUE].updateData)
       IN  IF ReferenceTaken(nfse, row.fiscalNacionalReference)
           THEN /\ iss' = [iss EXCEPT ![i].pc = "failed", ![i].error = DuplicateReference]
                /\ nfse' = nfse
           ELSE /\ iss' = [iss EXCEPT ![i].pc = "done", ![i].result = row.id]
                /\ nfse' = nfse \cup {row}
    /\ UNCHANGED <<now, webhookSecret, userTaxInfo, wh, lastWriter, received, started, ptax, cvt, tax,
                   users, taxReq, client, sent>>

\* Lines 98-131 / 196-227: the INSERT and the returned id.  The serial advances
\* also when the unique constraint rejects the row.
IssuerInsert(i) ==
    /\ iss[i].pc = "insert"
    /\ nfseSeq' = nfseSeq + 1
    /\ LET p == iss[i].params
           conv == Val(iss[i].conversion)
           row == NfseValues(nfseSeq + 1, p, Val(iss[i].taxInfo), conv,
                             buildServiceDescription(p.productName, p.amount, p.currency,
                                                     conv.exchangeRate, conv.source),
                             Val(iss[i].fiscalResponse), now)
       IN  IF ~ForeignKeysHold(row)
           THEN /\ iss' = [iss EXCEPT ![i].pc = "failed", ![i].error = ForeignKeyViolation]
                /\ nfse' = nfse
           ELSE IF ReferenceTaken(nfse, row.fiscalNacionalReference)
           THEN /\ iss' = [iss EXCEPT ![i].pc = "failed", ![i].error = DuplicateReference]
                /\ nfse' = nfse
           ELSE /\ iss' = [iss EXCEPT ![i].pc = "done", ![i].result = row.id]
                /\ nfse' = nfse \cup {row}
    /\ UNCHANGED <<now, webhookSecret, userTaxInfo, wh, lastWriter, received, started, ptax, cvt, tax,
                   users, taxReq, client, sent>>


\* ------------------------------------------------------ webhook reconciler
\* POST /webhook up to the UPDATE (lines 296-340): the signature check, the parse
\* and updateData.  401 on an authentication failure; a parse failure is thrown
\* outside the try block and app.onError answers 500.
WebhookReceive(d, body, signature) ==
    /\ wh[d].pc \in {"idle", "done"}
    /\ received < MaxDeliveries
    /\ received' = received + 1
    /\ LET req == [IdleDelivery EXCEPT !.signature = signature, !.body = body, !.at = now]
       IN  wh' = [wh EXCEPT ![d] =
                    IF ~SignatureValid(signature, webhookSecret, body)
                    THEN [req EXCEPT !.pc = "done", !.response = 401]
                    ELSE IF ParseWebhook(body) = ParseError
                    THEN [req EXCEPT !.pc = "done", !.response = 500]
                    ELSE [req EXCEPT !.pc = "update",
                                     !.updateData = BuildUpdateData(ParseWebhook(body), now)]]
    /\ lastWriter' = [r \in References |-> IF lastWriter[r] = d THEN 0 ELSE lastWriter[r]]
    /\ UNCHANGED <<now, webhookSecret, userTaxInfo, nfse, nfseSeq, iss, started, ptax, cvt, tax,
                   users, taxReq, client, sent>>

\* (variant: an UPDATE that matches no row is reported as 404)
WebhookDbUpdateStrict(d) ==
    /\ wh[d].pc = "update"
    /\ nfse' = DbUpdateNfse(nfse, wh[d].body.reference, wh[d].updateData)
    /\ wh' = [wh EXCEPT ![d].pc = "done",
                        ![d].response = IF ReferenceTaken(nfse, wh[d].body.reference)
                                        THEN 200 ELSE 404]
    /\ lastWriter' = IF ReferenceTaken(nfse, wh[d].body.reference)
                     THEN [lastWriter EXCEPT ![wh[d].body.reference] = d]
                     ELSE lastWriter
    /\ UNCHANGED <<now, webhookSecret, userTaxInfo, nfseSeq, received, iss, started, ptax, cvt, tax,
                   users, taxReq, client, sent>>

\* Lines 342-344: the UPDATE statement succeeds (on no row or one row), then 200.
WebhookDbUpdate(d) ==
    /\ wh[d].pc = "update"
    /\ nfse' = DbUpdateNfse(nfse, wh[d].body.reference, wh[d].updateData)
    /\ wh' = [wh EXCEPT ![d].pc = "done", ![d].response = 200]
    /\ lastWriter' = IF ReferenceTaken(nfse, wh[d].body.reference)
                     THEN [lastWriter EXCEPT ![wh[d].body.reference] = d]
                     ELSE lastWriter
    /\ UNCHANGED <<now, webhookSecret, userTaxInfo, nfseSeq, received, iss, started, ptax, cvt, tax,
                   users, taxReq, client, sent>>

\* (variant: the failing UPDATE has already written the status column)
WebhookDbFailPartial(d) ==
    /\ wh[d].pc = "update"
    /\ nfse' = DbUpdateNfse(nfse, wh[d].body.reference, Field("status", wh[d].updateData["status"]))
    /\ wh' = [wh EXCEPT ![d].pc = "done", ![d].response = 500]
    /\ UNCHANGED <<now, webhookSecret, userTaxInfo, nfseSeq, lastWriter, received, iss,
                   started, ptax, cvt, tax, users, taxReq, client, sent>>

\* Lines 345-348: the UPDATE statement throws (the database is unreachable);
\* nothing is written and the handler answers 500.
WebhookDbFail(d) ==
    /\ wh[d].pc = "update"
    /\ wh' = [wh EXCEPT ![d].pc = "done", ![d].response = 500]
    /\ UNCHANGED <<now, webhookSecret, userTaxInfo, nfse, nfseSeq, lastWriter, received, iss,
                   started, ptax, cvt, tax, users, taxReq, client, sent>>

\* NFSeService.updateNFSeFromWebhook (lines 233-265): the same updateData and the
\* same UPDATE, built from the fields of a webhook the caller has received.  No
\* delivery of POST /webhook is the writer of the row afterwards.
updateNFSeFromWebhook(body) ==
    /\ body.wellFormed
    /\ nfse' = DbUpdateNfse(nfse, body.reference, BuildUpdateData(ParseWebhook(body), now))
    /\ lastWriter' = [lastWriter EXCEPT ![body.reference] = 0]
    /\ UNCHANGED <<now, webhookSecret, userTaxInfo, nfseSeq, wh, received, iss, started, ptax,
                   cvt, tax, users, taxReq, client, sent>>

\* ------------------------------------------------------- tax API client
\* createNFSe, getNFSeStatus and cancelNFSe of FiscalNacionalClient: one fetch, then
\* the reading of its response.
ClientOps == {"create", "get", "cancel"}

ErrorPrefix(op) ==
    CASE op = "create" -> "Failed to create NFS-e: "
      [] op = "get" -> "Failed to get NFS-e status: "
      [] op = "cancel" -> "Failed to cancel NFS-e: "

\* What the API can answer: a status line, and a body that is JSON or not; a JSON
\* error body may carry a message.
ClientResponses ==
    [ok : {TRUE}, statusText : {"OK"}, json : BOOLEAN, message : {Null},
     status : {"processing", "authorized", "cancelled"}]
    \cup
    [ok : {FALSE}, statusText : {"Unprocessable Entity"}, json : {TRUE},
     message : {Null, Some(""), Some("NFS-e is not authorized")}, status : {""}]
    \cup
    [ok : {FALSE}, statusText : {"Bad Gateway"}, json : {FALSE}, message : {Null},
     status : {""}]

\* An invocation begins: the request is built and fetch is about to be called.
ClientCall(op, reference) ==
    /\ client.pc \in {"idle", "done"}
    /\ Len(client.calls) < MaxClientCalls
    /\ client' = [client EXCEPT !.pc = "fetch", !.op = op, !.reference = reference,
                                !.attempts = 0, !.response = NoResponse,
                                !.outcome = NoOutcome]
    /\ UNCHANGED <<now, webhookSecret, userTaxInfo, nfse, nfseSeq, wh, lastWriter, received, iss,
                   started, ptax, cvt, tax, users, taxReq, sent>>

\* What the invocation gives its caller for a response: the parsed value, an Error
\* with the operation's prefix and the provider's message (the status text when the
\* body has none), or the SyntaxError of response.json() on a body that is no JSON.
ClientOutcome(op, reference, response) ==
    IF ~response.json
    THEN [threw |-> TRUE, error |-> <<"SyntaxError">>, value |-> Null]
    ELSE IF ~response.ok
    THEN [threw |-> TRUE,
          error |-> <<ErrorPrefix(op), IF Truthy(response.message) THEN Val(response.message)
                                       ELSE response.statusText>>,
          value |-> Null]
    ELSE [threw |-> FALSE, error |-> <<>>,
          value |-> Some([reference |-> reference, status |-> response.status])]

\* (variant: a refused request is sent once more before the error is raised)
ClientFetchRetrying(response) ==
    /\ client.pc = "fetch"
    /\ client' = [client EXCEPT
                     !.pc = IF ~response.ok /\ client.attempts = 0 THEN "fetch" ELSE "done",
                     !.attempts = @ + 1,
                     !.calls = Append(@, <<client.op, client.reference>>),
                     !.response = response,
                     !.outcome = ClientOutcome(client.op, client.reference, response)]
    /\ UNCHANGED <<now, webhookSecret, userTaxInfo, nfse, nfseSeq, wh, lastWriter, received, iss,
                   started, ptax, cvt, tax, users, taxReq, sent>>

\* The fetch and the reading of its response; the invocation ends with it.
ClientFetch(response) ==
    /\ client.pc = "fetch"
    /\ client' = [client EXCEPT
                     !.pc = "done",
                     !.attempts = @ + 1,
                     !.calls = Append(@, <<client.op, client.reference>>),
                     !.response = response,
                     !.outcome = ClientOutcome(client.op, client.reference, response)]
    /\ UNCHANGED <<now, webhookSecret, userTaxInfo, nfse, nfseSeq, wh, lastWriter, received, iss,
                   started, ptax, cvt, tax, users, taxReq, sent>>

\* ----------------------------------------------- DELETE /admin/users/:id
\* DELETE FROM users WHERE id = u (users/index.ts:465), run by an admin other than
\* u.  The row's deletion cascades to user_tax_info.user_id and to nfse.user_id,
\* while nfse.tax_info_id restricts the deletion of a referenced tax profile.  When
\* u owns invoices the order of the two cascades decides: invoices first, and all
\* of u's rows go; tax profile first, and the restriction aborts the statement.
\* The order is that of the constraint triggers of the deployed schema.
DeleteUser(u, invoicesFirst) ==
    /\ IF u \notin users.ids
       THEN /\ users' = [users EXCEPT !.response = 404]
            /\ UNCHANGED <<userTaxInfo, nfse>>
       ELSE IF (\E r \in nfse : r.userId = u) /\ ~invoicesFirst
       THEN /\ users' = [users EXCEPT !.response = 500]
            /\ UNCHANGED <<userTaxInfo, nfse>>
       ELSE /\ users' = [ids |-> users.ids \ {u}, response |-> 200]
            /\ userTaxInfo' = [userTaxInfo EXCEPT ![u] = Null]
            /\ nfse' = {r \in nfse : r.userId # u}
    /\ UNCHANGED <<now, webhookSecret, nfseSeq, wh, lastWriter, received, iss, started, ptax,
                   cvt, tax, taxReq, client, sent>>

\* ------------------------------------------------------- POST /tax-info
\* .set({...data}) leaves a column alone when its key is absent from the body.
Merge(old, new) == IF new # Null THEN new ELSE old

TaxInfoUpdated(row, data) ==
    [row EXCEPT !.country = data.country, !.isBrazilian = data.isBrazilian,
                !.fullName = data.fullName,
                !.cpfCnpj = Merge(@, data.cpfCnpj), !.nif = Merge(@, data.nif),
                !.address = Merge(@, data.address), !.number = Merge(@, data.number),
                !.complement = Merge(@, data.complement),
                !.neighborhood = Merge(@, data.neighborhood), !.city = Merge(@, data.city),
                !.cityCode = Merge(@, data.cityCode), !.state = Merge(@, data.state),
                !.postalCode = Merge(@, data.postalCode)]

TaxInfoCreated(id, userId, data) ==
    [id |-> id, userId |-> userId, country |-> data.country, isBrazilian |-> data.isBrazilian,
     cpfCnpj |-> data.cpfCnpj, nif |-> data.nif, fullName |-> data.fullName,
     address |-> data.address, number |-> data.number, complement |-> data.complement,
     neighborhood |-> data.neighborhood, city |-> data.city, cityCode |-> data.cityCode,
     state |-> data.state, postalCode |-> data.postalCode]

\* createTaxInfoSchema, for the keys the inputs vary: a two-letter country and a
\* non-empty fullName.
SchemaAccepts(data) == Len(data.country) = 2 /\ Len(data.fullName) >= 1

\* zValidator, then lines 80-93: the validation of the handler.
TaxInfoRejected(data) ==
    \/ ~SchemaAccepts(data)
    \/ /\ data.isBrazilian
       /\ ~(Truthy(data.cpfCnpj) /\ Truthy(data.address) /\ Truthy(data.cityCode))
    \/ /\ ~data.isBrazilian
       /\ data.fullName = ""

\* (variant: saving the profile also rewrites the customer columns of the user's invoices)
TaxInfoUpsertRewritingInvoices(u, data) ==
    /\ ~TaxInfoRejected(data)
    /\ userTaxInfo[u] # Null
    /\ userTaxInfo' = [userTaxInfo EXCEPT ![u] = Some(TaxInfoUpdated(Val(@), data))]
    /\ nfse' = { IF r.userId = u
                 THEN [r EXCEPT !.customerName = data.fullName,
                                !.customerCountry = data.country]
                 ELSE r : r \in nfse }
    /\ tax' = [tax EXCEPT !.response = 200]
    /\ UNCHANGED <<now, webhookSecret, nfseSeq, wh, lastWriter, received, iss, started, ptax,
                   cvt, users, taxReq, client, sent>>

\* POST /tax-info (lines 77-121) for the authenticated user u: 400 when the
\* validation fails, otherwise the user's row is updated (200) or created (201).
TaxInfoUpsert(u, data) ==
    /\ IF TaxInfoRejected(data)
       THEN /\ tax' = [tax EXCEPT !.response = 400]
            /\ userTaxInfo' = userTaxInfo
       ELSE IF userTaxInfo[u] # Null
       THEN /\ userTaxInfo' = [userTaxInfo EXCEPT ![u] = Some(TaxInfoUpdated(Val(@), data))]
            /\ tax' = [tax EXCEPT !.response = 200]
       ELSE /\ userTaxInfo' = [userTaxInfo EXCEPT ![u] = Some(TaxInfoCreated(tax.seq + 1, u, data))]
            /\ tax' = [seq |-> tax.seq + 1, response |-> 201]
    /\ UNCHANGED <<now, webhookSecret, nfse, nfseSeq, wh, lastWriter, received, iss, started,
                   ptax, cvt, users, taxReq, client, sent>>

\* The handler step by step, as two requests of one user interleave.
\* (variant: user_tax_info.user_id carries no unique constraint)
UserIdTakenNever(rows) == FALSE

\* user_tax_info.user_id is unique (fiscal.ts:18-23): an INSERT fails when the user
\* has a row.
UserIdTaken(rows) == rows # <<>>

\* Lines 77-101: validation, then the SELECT of the user's row.
TaxInfoCall(s, u, data) ==
    /\ taxReq[s].pc = "idle"
    /\ taxReq' = [taxReq EXCEPT ![s] =
                     IF TaxInfoRejected(data)
                     THEN [pc |-> "idle", userId |-> u, data |-> data, existing |-> Null,
                           response |-> 400]
                     ELSE [pc |-> "write", userId |-> u, data |-> data,
                           existing |-> IF userTaxInfo[u] = <<>> THEN Null
                                        ELSE Some(Head(userTaxInfo[u])),
                           response |-> 0]]
    /\ UNCHANGED <<now, webhookSecret, userTaxInfo, nfse, nfseSeq, wh, lastWriter, received, iss,
                   started, ptax, cvt, tax, users, client, sent>>

\* Lines 103-120: UPDATE ... WHERE user_id = u when the SELECT found a row (200),
\* INSERT otherwise (201); a refused INSERT leaves the handler as an exception (500)
\* and has drawn its id from the sequence.
TaxInfoWrite(s) ==
    /\ taxReq[s].pc = "write"
    /\ LET u == taxReq[s].userId
           data == taxReq[s].data
           rows == userTaxInfo[u]
       IN  IF taxReq[s].existing # Null
           THEN /\ userTaxInfo' = [userTaxInfo EXCEPT ![u] =
                                      [k \in 1 .. Len(rows) |-> TaxInfoUpdated(rows[k], data)]]
                /\ tax' = tax
                /\ taxReq' = [taxReq EXCEPT ![s].pc = "idle", ![s].response = 200]
           ELSE IF UserIdTaken(rows)
           THEN /\ userTaxInfo' = userTaxInfo
                /\ tax' = [tax EXCEPT !.seq = @ + 1]
                /\ taxReq' = [taxReq EXCEPT ![s].pc = "idle", ![s].response = 500]
           ELSE /\ userTaxInfo' = [userTaxInfo EXCEPT ![u] =
                                      Append(rows, TaxInfoCreated(tax.seq + 1, u, data))]
                /\ tax' = [tax EXCEPT !.seq = @ + 1]
                /\ taxReq' = [taxReq EXCEPT ![s].pc = "idle", ![s].response = 201]
    /\ UNCHANGED <<now, webhookSecret, nfse, nfseSeq, wh, lastWriter, received, iss, started,
                   ptax, cvt, users, client, sent>>

\* Time passes between two readings of the clock.
Tick ==
    /\ now < MaxTime
    /\ now' = now + 1
    /\ UNCHANGED <<webhookSecret, userTaxInfo, nfse, nfseSeq, wh, lastWriter, received, iss,
                   started, ptax, cvt, tax, users, taxReq, client, sent>>


\* ------------------------------------------------- official-rate lookup
\* Dates are day numbers; the lookup is asked for day 0 (date || new Date()).
MsPerDay == 86400000
PtaxMaxDaysBack == 7
getTime(day) == day * MsPerDay

\* The days on which the rate service has a quote.
QuoteCalendars == (SUBSET {0 - 2, 0 - 1, 0}) \cup {{0 - 8}}
PtaxCurrencies == {"USD", "EUR"}
\* What one request to the rate service does: a non-2xx response, a transport or
\* parse failure, or a 200 with the quotes of the requested day.
FetchOutcomes == {"not_ok", "throws", "ok"}

PtaxQuote(currency, day) ==
    [buyRate |-> IF currency = "USD" THEN 53900 ELSE 62900,
     sellRate |-> IF currency = "USD" THEN 54000 ELSE 63000, date |-> day]

IdlePtax ==
    [pc |-> "idle", currency |-> "USD", quoteDays |-> {}, targetDate |-> 0, steps |-> 0,
     result |-> Null]

\* getPTAXRate(currency) is called.
PtaxCall(currency, quoteDays) ==
    /\ ptax.pc = "idle"
    /\ ptax' = [IdlePtax EXCEPT !.pc = "fetch", !.currency = currency,
                                !.quoteDays = quoteDays]
    /\ UNCHANGED <<now, webhookSecret, userTaxInfo, nfse, nfseSeq, wh, lastWriter, received, iss,
                   started, cvt, tax, users, taxReq, client, sent>>

\* One activation of getPTAXRate (lines 132-175): the request, and on an empty
\* answer the recursive call for the previous day, guarded by the distance between
\* targetDate and previousDay.
PtaxFetch(outcome) ==
    /\ ptax.pc = "fetch"
    /\ LET previousDay == ptax.targetDate - 1
       IN  IF outcome # "ok"
           THEN ptax' = [ptax EXCEPT !.pc = "returned", !.result = Null]
           ELSE IF ptax.targetDate \in ptax.quoteDays
           THEN ptax' = [ptax EXCEPT !.pc = "returned",
                                     !.result = Some(PtaxQuote(ptax.currency, ptax.targetDate))]
           ELSE IF (getTime(ptax.targetDate) - getTime(previousDay)) \div MsPerDay
                   <= PtaxMaxDaysBack
           THEN /\ ptax.steps < MaxLookupSteps
                /\ ptax' = [ptax EXCEPT !.targetDate = previousDay, !.steps = @ + 1]
           ELSE ptax' = [ptax EXCEPT !.pc = "returned", !.result = Null]
    /\ UNCHANGED <<now, webhookSecret, userTaxInfo, nfse, nfseSeq, wh, lastWriter, received, iss,
                   started, cvt, tax, users, taxReq, client, sent>>

\* --------------------------------------------- the resolver, step by step
\* One convertToBRL call with the lookups it awaits.  lookups lists the sources the
\* call has consulted, in order.
ConvertParams ==
    [amount : {5500, 1999}, currency : {"USD", "usd", "BRL", "brl", "EUR", "MXN"},
     chargeId : {Null, Some(""), Some("ch_1")}, paymentIntentId : {Null, Some("pi_1")}]

Settlement == [grossAmount |-> 29700, fee |-> 1200, net |-> 28500, chargeAmount |-> 5500]

\* What stripe.charges.retrieve does: it throws (no such charge, transport
\* failure), answers without an expanded balance transaction, or answers settled.
StripeAnswers == { <<"throws">>, <<"no_balance_transaction">>, <<"settled", Settlement>> }
\* stripe.paymentIntents.retrieve may also throw or carry no latest charge.
IntentAnswers == { <<"intent_throws">>, <<"no_latest_charge">> } \cup StripeAnswers

\* getStripeBalanceInfo / getStripeBalanceInfoFromPaymentIntent: every failure is
\* caught or tested and becomes null.
getStripeBalanceInfo(answer) == IF answer[1] = "settled" THEN Some(answer[2]) ELSE Null
getStripeBalanceInfoFromPaymentIntent(answer) == getStripeBalanceInfo(answer)

IdleConv ==
    [pc |-> "idle", params |-> CHOOSE q \in ConvertParams : TRUE, byCharge |-> Null,
     byIntent |-> Null, lookups |-> <<>>, result |-> Null]

ConvResult(c, ptaxRate) ==
    Some(convertToBRL(c.params.amount, c.params.currency, c.params.chargeId,
                      c.params.paymentIntentId, c.byCharge, c.byIntent, ptaxRate))

\* Where the call goes after the lookups up to `after` gave nothing.
NextLookup(params, after) ==
    IF after = "start" /\ Truthy(params.chargeId) THEN "charge"
    ELSE IF after \in {"start", "charge"} /\ Truthy(params.paymentIntentId) THEN "intent"
    ELSE "ptax"

\* Lines 188-203: the call starts; BRL returns at once.
ConvertCall(params) ==
    /\ cvt.pc = "idle"
    /\ cvt' = IF ToUpperCase(params.currency) = "BRL"
               THEN [IdleConv EXCEPT !.pc = "done", !.params = params,
                                     !.result = ConvResult([IdleConv EXCEPT !.params = params],
                                                           Null)]
               ELSE [IdleConv EXCEPT !.pc = NextLookup(params, "start"), !.params = params]
    /\ UNCHANGED <<now, webhookSecret, userTaxInfo, nfse, nfseSeq, wh, lastWriter, received, iss,
                   started, ptax, tax, users, taxReq, client, sent>>

\* (variant: a settled charge does not end the call)
ConvertStripeChargeFallsThrough(answer) ==
    /\ cvt.pc = "charge"
    /\ cvt' = [cvt EXCEPT !.byCharge = getStripeBalanceInfo(answer),
                            !.lookups = Append(@, "stripe_charge"),
                            !.pc = NextLookup(cvt.params, "charge")]
    /\ UNCHANGED <<now, webhookSecret, userTaxInfo, nfse, nfseSeq, wh, lastWriter, received, iss,
                   started, ptax, tax, users, taxReq, client, sent>>

\* Lines 205-227: the settlement of the charge.
ConvertStripeCharge(answer) ==
    /\ cvt.pc = "charge"
    /\ LET c == [cvt EXCEPT !.byCharge = getStripeBalanceInfo(answer),
                             !.lookups = Append(@, "stripe_charge")]
       IN  cvt' = IF c.byCharge # Null
                   THEN [c EXCEPT !.pc = "done", !.result = ConvResult(c, Null)]
                   ELSE [c EXCEPT !.pc = NextLookup(c.params, "charge")]
    /\ UNCHANGED <<now, webhookSecret, userTaxInfo, nfse, nfseSeq, wh, lastWriter, received, iss,
                   started, ptax, tax, users, taxReq, client, sent>>

\* Lines 229-250: the settlement behind the payment intent.
ConvertStripeIntent(answer) ==
    /\ cvt.pc = "intent"
    /\ LET c == [cvt EXCEPT !.byIntent = getStripeBalanceInfoFromPaymentIntent(answer),
                             !.lookups = Append(@, "stripe_intent")]
       IN  cvt' = IF c.byIntent # Null
                   THEN [c EXCEPT !.pc = "done", !.result = ConvResult(c, Null)]
                   ELSE [c EXCEPT !.pc = "ptax"]
    /\ UNCHANGED <<now, webhookSecret, userTaxInfo, nfse, nfseSeq, wh, lastWriter, received, iss,
                   started, ptax, tax, users, taxReq, client, sent>>

\* Line 253: getPTAXRate(currencyUpper) is called; quoteDays is the service's calendar.
ConvertPtaxCall(quoteDays) ==
    /\ cvt.pc = "ptax"
    /\ PtaxCall(ToUpperCase(cvt.params.currency), quoteDays)

\* Lines 254-286: getPTAXRate has returned; its quote, or else the fallback table.
ConvertPtaxReturn ==
    /\ cvt.pc = "ptax"
    /\ ptax.pc = "returned"
    /\ cvt' = [cvt EXCEPT !.pc = "done",
                            !.lookups = IF ptax.result # Null THEN Append(@, "ptax")
                                        ELSE @ \o <<"ptax", "fallback_table">>,
                            !.result = ConvResult(cvt, ptax.result)]
    /\ UNCHANGED <<now, webhookSecret, userTaxInfo, nfse, nfseSeq, wh, lastWriter, received, iss,
                   started, ptax, tax, users, taxReq, client, sent>>


\* ------------------------------------------------------- specifications
\* The state after construction: empty nfse table, nothing in flight.  The secret
\* and the stored tax profiles are what the deployment holds.
InitWith(secrets, profiles) ==
    /\ now = 0
    /\ webhookSecret \in secrets
    /\ userTaxInfo \in [Users -> profiles]
    /\ nfse = {}
    /\ nfseSeq = 0
    /\ wh = [d \in Deliveries |-> IdleDelivery]
    /\ lastWriter = [r \in References |-> 0]
    /\ received = 0
    /\ iss = [i \in Issuers |-> IdleIssuer]
    /\ started = 0
    /\ ptax = IdlePtax
    /\ cvt = IdleConv
    /\ tax = [seq |-> Cardinality({u \in Users : userTaxInfo[u] # Null}), response |-> 0]
    /\ users = [ids |-> Users, response |-> 0]
    /\ taxReq = [s \in TaxSlots |-> IdleTaxReq]
    /\ client = IdleClient
    /\ sent = <<>>

ValidProfile == Some(TaxInfoRow(1, 1, "BR", TRUE, Some("12345678901"), Null, "Ana", Some("a"), Some(Cep)))
AnyProfile == {Null} \cup {Some(p) : p \in StoredProfiles(1)}

IssuerSteps(paramSet, stripeSet, ptaxSet, apiSet) ==
    \/ \E i \in Issuers, params \in paramSet : IssuerLoadTaxInfo(i, params)
    \/ \E i \in Issuers, byCharge \in stripeSet, byIntent \in stripeSet, ptaxRate \in ptaxSet :
          IssuerConvert(i, byCharge, byIntent, ptaxRate)
    \/ \E i \in Issuers, outcome \in apiSet : IssuerSubmit(i, outcome)
    \/ \E i \in Issuers : IssuerInsert(i)

\* requests: pairs <<raw body, X-Fiscal-Signature header>>
WebhookSteps(requests) ==
    \/ \E d \in Deliveries, req \in requests : WebhookReceive(d, req[1], req[2])
    \/ \E d \in Deliveries : WebhookDbUpdate(d)
    \/ \E d \in Deliveries : WebhookDbFail(d)

\* One payment event, resolved at the official rate, accepted by the tax API
\* under reference R1.
OneParams == {p \in IssueParams : p.kind = "subscription" /\ p.currency = "USD" /\ p.stripeChargeId = Null}
AcceptedR1 == {o \in ApiOutcomes : o.ok /\ o.reference = "R1"}

\* The reconciler: signed webhooks for the invoices the issuer has created.
ReconcilerBodies == {b \in Bodies : b.wellFormed /\ (b.reference = "R1" \/ b.status = "cancelled")}
SignedRequests == {<<b, Some(createHmac("k1", b))>> : b \in ReconcilerBodies}

Init == InitWith({Some("k1")}, {ValidProfile})

Next ==
    \/ IssuerSteps(OneParams, {Null}, PtaxOutcomes \ {Null}, AcceptedR1)
    \/ WebhookSteps(SignedRequests)
    \/ Tick

Spec == Init /\ [][Next]_vars

\* The signature check: every secret setting, every kind of signature.
\* (the malformed body is among them)
AuthBodies == {b \in Bodies : b.reference = "R1" /\ b.status \in {"authorized", "cancelled"}}
AuthRequests == UNION {{<<b, sig>> : sig \in Signatures(b)} : b \in AuthBodies}

InitAuth == InitWith(Secrets, {ValidProfile})

NextAuth ==
    \/ IssuerSteps(OneParams, {Null}, PtaxOutcomes \ {Null}, {o \in AcceptedR1 : o.status = "processing"})
    \/ WebhookSteps(AuthRequests)

SpecAuth == InitAuth /\ [][NextAuth]_vars

\* The issuer alone: every stored profile, every call, every answer.
InitIssuer == InitWith({Some("k1")}, AnyProfile)

NextIssuer == IssuerSteps(IssueParams, StripeOutcomes, PtaxOutcomes, ApiOutcomes)

SpecIssuer == InitIssuer /\ [][NextIssuer]_vars

\* The official-rate lookup alone.
NextPTAX ==
    \/ \E currency \in PtaxCurrencies, quoteDays \in QuoteCalendars : PtaxCall(currency, quoteDays)
    \/ \E outcome \in FetchOutcomes : PtaxFetch(outcome)

SpecPTAX == Init /\ [][NextPTAX]_vars

\* The currency resolver alone: one call, every input, every answer of its sources.
NextConvert ==
    \/ \E params \in ConvertParams : ConvertCall(params)
    \/ \E answer \in StripeAnswers : ConvertStripeCharge(answer)
    \/ \E answer \in IntentAnswers : ConvertStripeIntent(answer)
    \/ \E quoteDays \in QuoteCalendars : ConvertPtaxCall(quoteDays)
    \/ \E outcome \in FetchOutcomes : PtaxFetch(outcome)
    \/ ConvertPtaxReturn

SpecConvert == Init /\ [][NextConvert]_vars


\* The ledger: one payment event issued and issued again, the customer saving the
\* tax profile in between, and signed webhooks for the two references.
LedgerBodies ==
    { WebhookBody("R1", "authorized", Some("N1"), Some("P1"), Some("X1"), Null),
      WebhookBody("R2", "error", Null, Null, Null, Some("E1")) }
LedgerRequests == {<<b, Some(createHmac("k1", b))>> : b \in LedgerBodies}
LedgerTaxInputs == {d \in TaxInfoInputs : d.fullName = "Ana Maria"}
\* The tax API answers R1 as processing, R2 as already authorized.
LedgerOutcomes ==
    {o \in ApiOutcomes : o.ok /\ (o.reference = "R1" <=> o.status = "processing")}

\* The webhooks of the ledger are handled one at a time.
NextLedger ==
    \/ IssuerSteps(OneParams, {Null}, PtaxOutcomes \ {Null}, LedgerOutcomes)
    \/ \E i \in Issuers : IssuerRetry(i)
    \/ \E u \in Users, data \in LedgerTaxInputs : TaxInfoUpsert(u, data)
    \/ \E req \in LedgerRequests : WebhookReceive(1, req[1], req[2])
    \/ WebhookDbUpdate(1)
    \/ WebhookDbFail(1)

SpecLedger == Init /\ [][NextLedger]_vars


\* The ledger, with the service's own update operation beside the webhook route.
ServiceBodies ==
    { WebhookBody("R1", "cancelled", Null, Null, Null, Null),
      WebhookBody("R1", "error", Null, Null, Null, Null),
      WebhookBody("R2", "error", Null, Null, Null, Some("E2")) }

NextService ==
    \/ NextLedger
    \/ \E body \in ServiceBodies : updateNFSeFromWebhook(body)

SpecService == Init /\ [][NextService]_vars

\* The life of one invoice: issued, cancelled by a webhook, its owner saving the tax
\* profile, and an admin deleting the owner.
DeletionBodies == { WebhookBody("R1", "cancelled", Null, Null, Null, Null) }
DeletionRequests == {<<b, Some(createHmac("k1", b))>> : b \in DeletionBodies}

NextDeletion ==
    \/ IssuerSteps(OneParams, {Null}, PtaxOutcomes \ {Null}, AcceptedR1)
    \/ \E req \in DeletionRequests : WebhookReceive(1, req[1], req[2])
    \/ WebhookDbUpdate(1)
    \/ WebhookDbFail(1)
    \/ \E u \in users.ids, data \in LedgerTaxInputs : TaxInfoUpsert(u, data)
    \/ \E u \in Users, invoicesFirst \in BOOLEAN : DeleteUser(u, invoicesFirst)

SpecDeletion == Init /\ [][NextDeletion]_vars

\* Requests to POST /tax-info of a user who has no profile yet, two at a time.
InitProfile == InitWith({Some("k1")}, {Null})

NextProfile ==
    \/ \E s \in TaxSlots, u \in Users, data \in TaxInfoInputs : TaxInfoCall(s, u, data)
    \/ \E s \in TaxSlots : TaxInfoWrite(s)

SpecProfile == InitProfile /\ [][NextProfile]_vars

\* Invocations of the tax API client, one after the other.
NextClient ==
    \/ \E op \in ClientOps, reference \in References : ClientCall(op, reference)
    \/ \E response \in ClientResponses : ClientFetch(response)

SpecClient == Init /\ [][NextClient]_vars

\* Issuances for one subscription and one payment intent, repeated with other
\* amounts and currencies, at other times and rates.
RenewalParams ==
    [kind : {"subscription"}, userId : Users, stripeSubscriptionId : {"sub_1"},
     stripeChargeId : {Null}, stripePaymentIntentId : {Null},
     amount : {5500, 1999}, currency : {"USD", "BRL"}, productName : {"Pro"},
     userEmail : {"u@x"}]
    \cup
    [kind : {"credit_purchase"}, userId : Users, stripeSubscriptionId : {"none"},
     stripeChargeId : {Null}, stripePaymentIntentId : {Some("pi_1")},
     amount : {5500, 1999}, currency : {"USD"}, productName : {"100 Credits"},
     userEmail : {"u@x"}]

NextReference ==
    \/ IssuerSteps(RenewalParams, {Null}, PtaxOutcomes, AcceptedR1)
    \/ \E i \in Issuers, params \in RenewalParams : IssuerReissue(i, params)
    \/ Tick

SpecReference == Init /\ [][NextReference]_vars

\* ================================================================ claims
RowsOf(table, reference) == {r \in table : r.fiscalNacionalReference = reference}
Applied(d) == wh[d].pc = "update" /\ wh'[d].pc = "done" /\ wh'[d].response = 200
Answered200(d) == wh[d].pc = "done" /\ wh[d].response = 200
DocumentFields == {"nfseNumber", "pdfUrl", "xmlUrl"}
PayloadField(body, f) ==
    CASE f = "nfseNumber" -> body.nfse_number
      [] f = "pdfUrl" -> body.pdf_url
      [] f = "xmlUrl" -> body.xml_url

\* C1: a webhook request whose signature header is absent, or that arrives while no
\* secret is configured, or whose signature is not the hex HMAC-SHA256 of the raw
\* body under the secret, is answered 401 and issues no UPDATE: every step that
\* changes an existing nfse row is the UPDATE of an authenticated request.
Authenticated(d) ==
    /\ wh[d].signature # Null
    /\ webhookSecret \notin {Null, Some("")}
    /\ Val(wh[d].signature) = createHmac(Val(webhookSecret), wh[d].body)

C1_UnauthenticatedRejected ==
    [][ /\ \A d \in Deliveries :
              (wh'[d].pc # "idle" /\ ~Authenticated(d)')
                  => (wh'[d].pc = "done" /\ wh'[d].response = 401)
        /\ (\E r \in nfse : r \notin nfse')
              => \E d \in Deliveries : Authenticated(d) /\ Applied(d) ]_vars

\* C1 witness: a request signed for another body, aimed at an existing invoice, was
\* answered 401.
C1_Witness ==
    \E d \in Deliveries :
        /\ wh[d].response = 401
        /\ wh[d].signature = Some(createHmac("k1", Tampered(wh[d].body)))
        /\ webhookSecret = Some("k1")
        /\ RowsOf(nfse, wh[d].body.reference) # {}

\* C2: when the rate service has no quote on the requested day nor on any earlier
\* day, getPTAXRate goes back at most 7 days.
C2_LookupBounded == ptax.quoteDays = {} => ptax.steps <= PtaxMaxDaysBack

\* C3: an issuance that does not complete leaves the nfse table as it was: every
\* step of an issuance except the one that completes it leaves the rows unchanged,
\* and a failed issuance carries the error it raises.
C3_AllOrNothing ==
    [][ \A i \in Issuers :
            (iss'[i] # iss[i] /\ iss'[i].pc # "done")
                => (nfse' = nfse /\ (iss'[i].pc = "failed" => iss'[i].error # <<>>)) ]_vars

\* C3 witness: the tax API refused the submission and the issuance failed.
C3_Witness ==
    \E i \in Issuers :
        /\ iss[i].pc = "failed"
        /\ iss[i].apiCalls = 1
        /\ iss[i].error = ApiFailure("rejected")
        /\ RowsOf(nfse, "R1") = {}

\* C4: an issuance for a user without a tax profile fails with "User tax information
\* not found" before the currency resolver and the tax API are called, and writes
\* no row.
C4_MissingProfileRefused ==
    [][ \A i \in Issuers :
            (iss'[i] # iss[i] /\ userTaxInfo[iss'[i].params.userId] = Null)
                => /\ iss'[i].pc = "failed"
                   /\ iss'[i].error = MissingTaxInfo
                   /\ iss'[i].convertCalls = 0
                   /\ iss'[i].apiCalls = 0
                   /\ nfse' = nfse ]_vars

\* C4 witness: an issuance was refused for the missing profile.
C4_Witness ==
    \E i \in Issuers :
        /\ iss[i].pc = "failed"
        /\ iss[i].error = MissingTaxInfo
        /\ userTaxInfo[iss[i].params.userId] = Null

\* C5: an issuance for a domestic profile without cpfCnpj makes no call to the tax API.
C5_DomesticWithoutDocumentRefused ==
    \A i \in Issuers :
        (/\ iss[i].taxInfo # Null
         /\ Val(iss[i].taxInfo).isBrazilian
         /\ Val(iss[i].taxInfo).cpfCnpj = Null)
            => iss[i].apiCalls = 0

\* C6: every persisted invoice has one of the five statuses.
KnownStatuses == {"pending", "processing", "authorized", "cancelled", "error"}
C6_StatusClosed == \A r \in nfse : r.status \in KnownStatuses


\* C7: two deliveries for the same reference whose UPDATEs reach the row one after
\* the other (in either order, however the two requests overlap) leave the row that
\* the two updates give in that serial order: each column holds the value of the
\* later update that names it, else of the earlier one, else what it held before.
C7_SerialOutcome ==
    [][ \A a \in Deliveries, b \in Deliveries :
            (/\ a # b
             /\ Answered200(a)
             /\ Applied(b)
             /\ wh[a].body.reference = wh[b].body.reference
             /\ lastWriter[wh[b].body.reference] = a)
                => \A r \in RowsOf(nfse, wh[b].body.reference) :
                      \E r2 \in nfse' :
                          /\ r2.id = r.id
                          /\ \A c \in DOMAIN r :
                                r2[c] = IF c \in DOMAIN wh[b].updateData THEN wh[b].updateData[c]
                                        ELSE IF c \in DOMAIN wh[a].updateData
                                        THEN wh[a].updateData[c]
                                        ELSE r[c] ]_vars

\* C7 witness: an "error" delivery received first and an "authorized" delivery received
\* later overlapped; the authorized UPDATE reached the row first, the error UPDATE
\* last, and the row holds the status of the one and the issue time of the other.
C7_Witness ==
    \E a \in Deliveries, b \in Deliveries :
        /\ a # b
        /\ Answered200(a) /\ Answered200(b)
        /\ wh[a].body.status = "authorized" /\ wh[b].body.status = "error"
        /\ wh[a].body.reference = wh[b].body.reference
        /\ wh[b].at < wh[a].at
        /\ lastWriter[wh[b].body.reference] = b
        /\ \E r \in RowsOf(nfse, wh[b].body.reference) :
              /\ r.status = "error"
              /\ r.updatedAt = Some(wh[b].at)
              /\ r.issuedAt = Some(wh[a].at)
              /\ r.errorMessage # Null

\* C8: an "authorized" webhook applied to an invoice that an "authorized" webhook
\* already updated leaves status authorized and issuedAt as it was.
C8_ReapplyKeepsIssuedAt ==
    [][ \A d \in Deliveries :
            (Applied(d) /\ wh[d].body.status = "authorized")
                => \A r \in RowsOf(nfse, wh[d].body.reference) :
                      (r.status = "authorized" /\ r.issuedAt # Null)
                          => \E r2 \in nfse' :
                                /\ r2.id = r.id
                                /\ r2.status = "authorized"
                                /\ r2.issuedAt = r.issuedAt ]_vars

\* C9: an "authorized" webhook sets status authorized and issuedAt to the time the
\* handler read, and changes invoice number / PDF URL / XML URL only to a value its
\* payload carries; in no step does one of these three go from non-null to null.
C9_AuthorizedKeepsKnownFields ==
    [][ /\ \A r \in nfse, r2 \in nfse' :
              r2.id = r.id => \A f \in DocumentFields : r[f] # Null => r2[f] # Null
        /\ \A d \in Deliveries :
              (Applied(d) /\ wh[d].body.status = "authorized")
                  => \A r \in RowsOf(nfse, wh[d].body.reference) :
                        \E r2 \in nfse' :
                            /\ r2.id = r.id
                            /\ r2.status = "authorized"
                            /\ r2.issuedAt = Some(wh[d].at)
                            /\ \A f \in DocumentFields :
                                  /\ Truthy(PayloadField(wh[d].body, f))
                                        => r2[f] = PayloadField(wh[d].body, f)
                                  /\ r2[f] # r[f]
                                        => (/\ PayloadField(wh[d].body, f) # Null
                                            /\ r2[f] = PayloadField(wh[d].body, f)) ]_vars

\* C9 witness: an "authorized" webhook without document fields was the last update
\* of an invoice that still has its number, PDF URL and XML URL.
C9_Witness ==
    \E d \in Deliveries :
        /\ Answered200(d)
        /\ wh[d].body.status = "authorized"
        /\ \A f \in DocumentFields : PayloadField(wh[d].body, f) = Null
        /\ lastWriter[wh[d].body.reference] = d
        /\ \E r \in RowsOf(nfse, wh[d].body.reference) :
              /\ r.status = "authorized"
              /\ \A f \in DocumentFields : r[f] # Null

\* C10: a "cancelled" webhook applied to an existing invoice, whatever its status,
\* leaves it with status cancelled and a non-null cancelledAt.
C10_CancelledFromAnyStatus ==
    [][ \A d \in Deliveries :
            (Applied(d) /\ wh[d].body.status = "cancelled")
                => \A r \in RowsOf(nfse, wh[d].body.reference) :
                      \E r2 \in nfse' :
                          /\ r2.id = r.id
                          /\ r2.status = "cancelled"
                          /\ r2.cancelledAt # Null ]_vars

\* C10 witness: an invoice that was authorized (it has an issue time) is cancelled
\* by the last webhook applied to it.
C10_Witness ==
    \E d \in Deliveries :
        /\ Answered200(d)
        /\ wh[d].body.status = "cancelled"
        /\ lastWriter[wh[d].body.reference] = d
        /\ \E r \in RowsOf(nfse, wh[d].body.reference) :
              /\ r.status = "cancelled"
              /\ r.cancelledAt # Null
              /\ r.issuedAt # Null


\* C11: an authenticated webhook whose reference matches no persisted invoice is a
\* silent no-op: the step that runs its UPDATE creates no row, changes no row and
\* answers 200.
C11_UnknownReferenceNoOp ==
    [][\A d \in Deliveries :
        (WebhookDbUpdate(d) /\ RowsOf(nfse, wh[d].body.reference) = {})
            => /\ nfse' = nfse
               /\ wh'[d].pc = "done"
               /\ wh'[d].response = 200]_vars

\* An authenticated delivery was answered 200 although no invoice carries its
\* reference (rows are never removed, so none did when its UPDATE ran).
C11_Witness ==
    \E d \in Deliveries :
        /\ Answered200(d)
        /\ Authenticated(d)
        /\ RowsOf(nfse, wh[d].body.reference) = {}


\* C12: a well-formed, authenticated webhook runs exactly one UPDATE statement.
\* Receiving it writes nothing; the step that ends it either applies every column
\* of its updateData to the rows of its reference and answers 200, or, when the
\* statement fails, leaves the table as it was and answers 500.
FullyApplied(table, reference, u) ==
    { IF r.fiscalNacionalReference = reference
      THEN [c \in DOMAIN r |-> IF c \in DOMAIN u THEN u[c] ELSE r[c]]
      ELSE r : r \in table }

C12_OneUpdateOrNone ==
    [][\A d \in Deliveries :
        /\ (wh[d].pc # "update" /\ wh'[d] # wh[d] /\ wh'[d].body.wellFormed
             /\ SignatureValid(wh'[d].signature, webhookSecret, wh'[d].body))
               => (wh'[d].pc = "update" /\ nfse' = nfse)
        /\ (wh[d].pc = "update" /\ wh'[d] # wh[d])
               => /\ wh'[d].pc = "done"
                  /\ \/ /\ wh'[d].response = 200
                        /\ nfse' = FullyApplied(nfse, wh[d].body.reference, wh[d].updateData)
                     \/ /\ wh'[d].response = 500
                        /\ nfse' = nfse]_vars

\* One delivery was applied to an existing invoice and answered 200, another one
\* for an existing invoice failed in the database and was answered 500.
C12_Witness ==
    \E d1, d2 \in Deliveries :
        /\ d1 # d2
        /\ Answered200(d1) /\ lastWriter[wh[d1].body.reference] = d1
        /\ wh[d2].pc = "done" /\ wh[d2].response = 500 /\ wh[d2].body.wellFormed
        /\ RowsOf(nfse, wh[d2].body.reference) # {}
        /\ \E r \in RowsOf(nfse, wh[d2].body.reference) :
              r.status # wh[d2].body.status


\* The result and the currency of the convertToBRL call.
CvtUpper == ToUpperCase(cvt.params.currency)
CvtResult == Val(cvt.result)
ProcessorUnavailable == cvt.byCharge = Null /\ cvt.byIntent = Null

\* C13: for a non-BRL currency, once a settlement lookup (by charge or by payment
\* intent) has succeeded the call has returned source stripe_balance with the
\* settled gross amount, and neither the official-rate service nor the fallback
\* table has been consulted.
C13_SettlementWins ==
    (cvt.byCharge # Null \/ cvt.byIntent # Null)
        => /\ cvt.pc = "done"
           /\ CvtUpper # "BRL"
           /\ CvtResult.source = "stripe_balance"
           /\ CvtResult.amountBrl = Settlement.grossAmount * 10000
           /\ \A k \in 1 .. Len(cvt.lookups) : cvt.lookups[k] \in {"stripe_charge", "stripe_intent"}
           /\ ptax.pc = "idle"

\* The charge lookup failed, the payment-intent lookup settled.
C13_Witness ==
    /\ cvt.pc = "done"
    /\ CvtUpper = "EUR"
    /\ cvt.lookups = <<"stripe_charge", "stripe_intent">>
    /\ cvt.byCharge = Null /\ cvt.byIntent # Null
    /\ CvtResult.source = "stripe_balance"

\* C14: for a non-BRL currency, when no settlement is available and the official
\* rate is unavailable (the lookup failed, or the service has no quote on the
\* requested day nor on the 7 days before it), the call returns source fallback at
\* the rate of the fallback table.
QuoteInWindow == \E day \in (0 - PtaxMaxDaysBack) .. 0 : day \in ptax.quoteDays
C14_ExhaustedSourcesFallBack ==
    (/\ cvt.pc = "done"
     /\ CvtUpper # "BRL"
     /\ ProcessorUnavailable
     /\ (ptax.result = Null \/ ~QuoteInWindow))
        => /\ CvtResult.source = "fallback"
           /\ CvtResult.exchangeRate = getFallbackRate(CvtUpper)
           /\ CvtResult.amountBrl = cvt.params.amount * getFallbackRate(CvtUpper)

\* C15: for currency BRL in any letter case the call returns at once with rate 1,
\* source stripe_balance and the amount unchanged, and consults no source even
\* when processor references are supplied.
C15_BrlShortCircuit ==
    (cvt.pc # "idle" /\ CvtUpper = "BRL")
        => /\ cvt.pc = "done"
           /\ CvtResult.exchangeRate = 10000
           /\ CvtResult.source = "stripe_balance"
           /\ CvtResult.amountBrl = cvt.params.amount * 10000
           /\ CvtResult.originalAmount = cvt.params.amount
           /\ cvt.lookups = <<>>
           /\ ptax.pc = "idle"

\* A lower-case "brl" call with both processor references supplied has returned.
C15_Witness ==
    /\ cvt.pc = "done"
    /\ cvt.params.currency = "brl"
    /\ cvt.params.chargeId = Some("ch_1") /\ cvt.params.paymentIntentId = Some("pi_1")
    /\ CvtResult.source = "stripe_balance"

\* C16: when no settlement is available and the official-rate lookup returns a
\* quote, the call returns source ptax, the quote's sell rate and amount x sell
\* rate; 55.00 USD at 5.4000 gives 297.00 BRL.
C16_OfficialSellRate ==
    (cvt.pc = "done" /\ CvtUpper # "BRL" /\ ProcessorUnavailable /\ ptax.result # Null)
        => /\ CvtResult.source = "ptax"
           /\ CvtResult.exchangeRate = Val(ptax.result).sellRate
           /\ CvtResult.amountBrl = cvt.params.amount * Val(ptax.result).sellRate
           /\ (cvt.params.amount = 5500 /\ Val(ptax.result).sellRate = 54000)
                 => CvtResult.amountBrl = 297 * 1000000

\* 55.00 USD without a processor reference was converted at the official rate.
C16_Witness ==
    /\ cvt.pc = "done"
    /\ cvt.params = [amount |-> 5500, currency |-> "USD", chargeId |-> Null,
                     paymentIntentId |-> Null]
    /\ ptax.result # Null
    /\ Val(ptax.result).sellRate # Val(ptax.result).buyRate
    /\ CvtResult.amountBrl = 297 * 1000000


\* Rows and columns of the ledger.
IdsOf(table) == {r.id : r \in table}
CreatedRows == {r \in nfse' : r.id \notin IdsOf(nfse)}
MutableColumns ==
    {"status", "updatedAt", "issuedAt", "cancelledAt", "nfseNumber", "pdfUrl", "xmlUrl",
     "errorMessage"}
SnapshotColumns == {"customerName", "customerEmail", "customerCountry", "customerDocument"}
Inserts(i) == iss[i].pc = "insert" /\ iss'[i].pc = "done"

\* C17: the row an issuance persists carries the reference and the status of the
\* tax API's response, and a later webhook with that reference updates the row with
\* that reference and no other.
C17_ProviderReferenceIsKey ==
    [][ /\ \A i \in Issuers :
              Inserts(i) =>
                 \E r \in nfse' :
                    /\ nfse' = nfse \cup {r} /\ r \notin nfse
                    /\ r.id = iss'[i].result
                    /\ r.fiscalNacionalReference = Val(iss[i].fiscalResponse).reference
                    /\ r.status = Val(iss[i].fiscalResponse).status
        /\ \A d \in Deliveries :
              WebhookDbUpdate(d) =>
                 \A r \in nfse :
                    IF r.fiscalNacionalReference = wh[d].body.reference
                    THEN \E r2 \in nfse' : r2.id = r.id /\ r2.status = wh[d].body.status
                    ELSE r \in nfse' ]_vars

\* Two invoices of one payment event under two provider references: the webhook for
\* R1 has authorized the first, the second still has the status it was created with.
C17_Witness ==
    \E r1, r2 \in nfse :
        /\ r1.fiscalNacionalReference = "R1" /\ r2.fiscalNacionalReference = "R2"
        /\ lastWriter["R1"] # 0 /\ lastWriter["R2"] = 0
        /\ r1.nfseNumber = Some("N1") /\ r1.issuedAt # Null
        /\ r2.status = "authorized" /\ r2.issuedAt = Null

\* C18 as stated: every row is created in status processing, and an existing row is
\* changed only by the UPDATE of a webhook.
C18_CreatedProcessing ==
    [][ /\ \A r \in CreatedRows : r.status = "processing"
        /\ \A r \in nfse : r \notin nfse' => \E d \in Deliveries : WebhookDbUpdate(d) ]_vars

\* C18, amended: every row is created by an issuance with the status the tax API
\* answered, and afterwards it is changed only by the UPDATE of a webhook for its
\* reference, which touches the reconciler's columns only.
C18_CreatedAsAnsweredThenReconcilerOnly ==
    [][ /\ \A r \in CreatedRows :
              \E i \in Issuers : Inserts(i) /\ r.status = Val(iss[i].fiscalResponse).status
        /\ \A r \in nfse :
              r \notin nfse' =>
                 \E d \in Deliveries :
                    /\ WebhookDbUpdate(d)
                    /\ wh[d].body.reference = r.fiscalNacionalReference
                    /\ \E r2 \in nfse' :
                          /\ r2.id = r.id
                          /\ \A c \in (DOMAIN r) \ MutableColumns : r2[c] = r[c] ]_vars

\* A row the tax API answered as authorized, not yet touched by any webhook; the
\* same issuance is being repeated.
C18_Witness ==
    \E r \in nfse :
        /\ r.status = "authorized" /\ r.issuedAt = Null
        /\ lastWriter[r.fiscalNacionalReference] = 0
        /\ started > MaxIssuances

\* C19: no two rows share a reference: an issuance whose response carries a stored
\* reference fails and adds no row.
C19_ReferenceUnique ==
    [][ /\ \A r1, r2 \in nfse' :
              r1.fiscalNacionalReference = r2.fiscalNacionalReference => r1 = r2
        /\ \A i \in Issuers :
              (/\ iss[i].pc = "insert" /\ iss'[i] # iss[i]
               /\ RowsOf(nfse, Val(iss[i].fiscalResponse).reference) # {})
                 => (iss'[i].pc = "failed" /\ nfse' = nfse) ]_vars

\* The repeated issuance got the stored reference again and failed on it.
C19_Witness ==
    \E i \in Issuers :
        /\ iss[i].pc = "failed" /\ iss[i].error = DuplicateReference
        /\ Cardinality(RowsOf(nfse, Val(iss[i].fiscalResponse).reference)) = 1
        /\ Cardinality(nfse) = 1

\* C20: the customer snapshot of a row is the tax profile the issuance read and the
\* e-mail it was called with, and no later step changes it.
SnapshotOf(taxInfo, email) ==
    [customerName |-> taxInfo.fullName, customerEmail |-> email,
     customerCountry |-> taxInfo.country,
     customerDocument |-> IF Truthy(taxInfo.cpfCnpj) THEN taxInfo.cpfCnpj
                          ELSE IF Truthy(taxInfo.nif) THEN taxInfo.nif ELSE Null]
Snapshot(r) == [c \in SnapshotColumns |-> r[c]]

C20_SnapshotFrozen ==
    [][ /\ \A r \in CreatedRows :
              \E i \in Issuers :
                 Snapshot(r) = SnapshotOf(Val(iss[i].taxInfo), iss[i].params.userEmail)
        /\ \A r \in nfse : \E r2 \in nfse' : r2.id = r.id /\ Snapshot(r2) = Snapshot(r) ]_vars

\* The customer has renamed the profile and a webhook has authorized the invoice:
\* the row still shows the name and document of the issuance.
C20_Witness ==
    \E r \in nfse :
        /\ r.customerName = "Ana" /\ r.customerDocument = Some("12345678901")
        /\ Val(userTaxInfo[r.userId]).fullName = "Ana Maria"
        /\ Val(userTaxInfo[r.userId]).cpfCnpj = Some("12345678000199")
        /\ lastWriter[r.fiscalNacionalReference] # 0
        /\ r.nfseNumber = Some("N1")


\* C21: an update from a webhook, by the route or by the service, changes only rows
\* of the payload's reference and only their reconciler columns; owner, tax profile,
\* transaction type, amounts, currency, rates and every other column stay, and so
\* does every row of another reference.
ChangedRows == {r \in nfse : r \notin nfse'}
C21_UpdateTouchesOneRowMutableOnly ==
    [][ \A r \in ChangedRows :
           /\ \/ \E d \in Deliveries :
                    WebhookDbUpdate(d) /\ wh[d].body.reference = r.fiscalNacionalReference
              \/ \E body \in ServiceBodies :
                    updateNFSeFromWebhook(body) /\ body.reference = r.fiscalNacionalReference
           /\ \E r2 \in nfse' :
                 /\ r2.id = r.id
                 /\ \A c \in (DOMAIN r) \ MutableColumns : r2[c] = r[c]
           /\ Cardinality(nfse') = Cardinality(nfse) ]_vars

\* Two invoices; the one under R1 was cancelled by the service's update, the other
\* is as it was created, and both still carry their amounts and rates.
C21_Witness ==
    \E r1, r2 \in nfse :
        /\ r1.fiscalNacionalReference = "R1" /\ r2.fiscalNacionalReference = "R2"
        /\ r1.status = "cancelled" /\ r1.cancelledAt # Null
        /\ r2.status = "authorized" /\ r2.cancelledAt = Null /\ r2.errorMessage = Null
        /\ r1.valueBrl = 5500 * 54000 /\ r2.valueBrl = 5500 * 54000
        /\ r1.issRate = 200 /\ r1.exchangeRate = 54000


\* C22: an invoice is never deleted: every row of one state is present, under its
\* id, in the next.
C22_NeverDeleted ==
    [][ \A r \in nfse : \E r2 \in nfse' : r2.id = r.id ]_vars


\* Whether the string hay has needle as a contiguous part.
Contains(hay, needle) ==
    \E k \in 1 .. (Len(hay) - Len(needle) + 1) : SubSeq(hay, k, k + Len(needle) - 1) = needle

\* C23: the service description stored with an issued invoice contains, character
\* for character, the audit string of the conversion result used for that invoice.
C23_AuditStringPersistedVerbatim ==
    \A i \in Issuers :
        iss[i].pc = "done" =>
            \E r \in nfse : /\ r.id = iss[i].result
                            /\ Contains(r.serviceDescription, Val(iss[i].conversion).auditDescription)


\* What the claim calls a complete domestic profile, and a named foreign one.
CompleteProfile(data) ==
    IF data.isBrazilian
    THEN /\ Truthy(data.cpfCnpj)
         /\ Truthy(data.address) /\ Truthy(data.number) /\ Truthy(data.neighborhood)
         /\ Truthy(data.cityCode) /\ Truthy(data.state)
         /\ data.postalCode # Null /\ data.postalCode # Some(<<>>)
    ELSE data.fullName # ""

\* C24: a request whose domestic profile lacks the tax document or a part of the
\* address, or whose foreign profile lacks the legal name, is answered 400 and
\* writes nothing.
C24_IncompleteProfileRejected ==
    [][ \A s \in TaxSlots :
          (taxReq[s].pc = "idle" /\ taxReq'[s] # taxReq[s] /\ ~CompleteProfile(taxReq'[s].data))
              => (taxReq'[s].pc = "idle" /\ taxReq'[s].response = 400) ]_vars


\* C25: a user never has more than one tax profile row, however two requests of
\* the user interleave.
C25_AtMostOneProfile ==
    \A u \in Users : Len(userTaxInfo[u]) <= 1

\* Two requests both found no row; one created it, the other was refused.
C25_Witness ==
    /\ taxReq[1].pc = "idle" /\ taxReq[1].response = 201
    /\ taxReq[2].pc = "idle" /\ taxReq[2].response = 500
    /\ taxReq[1].userId = taxReq[2].userId
    /\ Len(userTaxInfo[taxReq[1].userId]) = 1


\* C26: an invocation of create, get or cancel makes one request to the tax API; a
\* non-2xx answer ends it with an error, which carries the operation's prefix and
\* the provider's message when the body brings one, and no value is returned.
C26_RejectionSurfacedOnce ==
    /\ client.attempts <= 1
    /\ (client.pc = "done" /\ ~client.response.ok) =>
          /\ client.attempts = 1
          /\ client.outcome.threw
          /\ client.outcome.value = Null
          /\ client.outcome.error # <<>>
          /\ Truthy(client.response.message) =>
                client.outcome.error = <<ErrorPrefix(client.op), Val(client.response.message)>>

\* Cancelling an invoice that is not authorized was refused with a message.
C26_Witness ==
    /\ client.pc = "done" /\ client.op = "cancel" /\ ~client.response.ok
    /\ client.response.message = Some("NFS-e is not authorized")
    /\ client.outcome.error = <<"Failed to cancel NFS-e: ", "NFS-e is not authorized">>
    /\ client.attempts = 1


\* Two calls name the same subscription, or the same payment intent.
SameIdentifiers(p, q) ==
    /\ p.kind = q.kind
    /\ p.userId = q.userId
    /\ IF p.kind = "subscription" THEN p.stripeSubscriptionId = q.stripeSubscriptionId
       ELSE p.stripePaymentIntentId = q.stripePaymentIntentId

\* C27: two CreateInvoice requests built for the same identifiers carry the same
\* externalReference, user_<userId>_sub_<subscription> or
\* user_<userId>_credits_<payment intent>, whatever their amounts, currencies,
\* times and conversions.
C27_ReferenceDeterministic ==
    \A a \in 1 .. Len(sent), b \in 1 .. Len(sent) :
        /\ SameIdentifiers(sent[a].params, sent[b].params) =>
              sent[a].referenciaExterna = sent[b].referenciaExterna
        /\ sent[a].params.kind = "subscription" =>
              sent[a].referenciaExterna = "user_1_sub_sub_1"
        /\ sent[a].params.kind = "credit_purchase" =>
              sent[a].referenciaExterna = "user_1_credits_pi_1"

\* Two requests for one subscription that differ in amount, currency, time and
\* conversion.
C27_Witness ==
    /\ Len(sent) = 2
    /\ SameIdentifiers(sent[1].params, sent[2].params)
    /\ sent[1].params.kind = "subscription"
    /\ sent[1].params.amount # sent[2].params.amount
    /\ sent[1].params.currency # sent[2].params.currency
    /\ sent[1].at # sent[2].at
    /\ sent[1].servico # sent[2].servico


\* The rows of the body's reference after an error update.
ErrorRecorded(body) ==
    \A r2 \in RowsOf(nfse', body.reference) :
        /\ r2.status = "error"
        /\ r2.errorMessage # Null
        /\ r2.errorMessage = IF Truthy(body.error_message) THEN body.error_message
                             ELSE Some("Unknown error")

\* C28: an update for a payload of status error, by the route or by the service,
\* leaves the row with status error and with the payload's error message, or with
\* "Unknown error" when the payload has none; the message is not null afterwards.
C28_ErrorMessageSetOrDefaulted ==
    [][ /\ \A d \in Deliveries :
              (WebhookDbUpdate(d) /\ wh[d].body.status = "error") => ErrorRecorded(wh[d].body)
        /\ \A body \in ServiceBodies :
              (updateNFSeFromWebhook(body) /\ body.status = "error") => ErrorRecorded(body) ]_vars

\* One invoice failed with the provider's message, the other without any.
C28_Witness ==
    \E r1, r2 \in nfse :
        /\ r1.fiscalNacionalReference = "R1" /\ r1.status = "error"
        /\ r1.errorMessage = Some("Unknown error")
        /\ r2.fiscalNacionalReference = "R2" /\ r2.status = "error"
        /\ r2.errorMessage = Some("E1")


\* A row as the INSERT leaves it: the provider's initial status and none of the
\* reconciler's dates or messages.
AsCreated(r) ==
    /\ r.status \in ProviderStatuses
    /\ r.issuedAt = Null /\ r.cancelledAt = Null /\ r.errorMessage = Null

\* C29: the UPDATE of a webhook whose reference has no row yet changes nothing and
\* is answered 200; the row an issuance inserts afterwards has the status of the
\* CreateInvoice response and nothing of that webhook, and keeps them until the
\* UPDATE of a webhook for its reference that is still to be processed.
C29_EarlyWebhookLost ==
    [][ /\ \A d \in Deliveries :
              (WebhookDbUpdate(d) /\ RowsOf(nfse, wh[d].body.reference) = {})
                  => (nfse' = nfse /\ wh'[d].response = 200)
        /\ \A r \in CreatedRows :
              \E i \in Issuers :
                 Inserts(i) /\ r.status = Val(iss[i].fiscalResponse).status /\ AsCreated(r)
        /\ \A r \in nfse :
              r \notin nfse' =>
                 \E d \in Deliveries :
                    /\ wh[d].pc = "update" /\ WebhookDbUpdate(d)
                    /\ wh[d].body.reference = r.fiscalNacionalReference ]_vars

\* A cancellation for R1 was acknowledged, and the row of R1, inserted after it, is
\* still processing.
C29_Witness ==
    \E d \in Deliveries :
        /\ Answered200(d)
        /\ wh[d].body.reference = "R1" /\ wh[d].body.status = "cancelled"
        /\ lastWriter["R1"] = 0
        /\ \E r \in nfse : /\ r.fiscalNacionalReference = "R1"
                            /\ r.status = "processing" /\ r.cancelledAt = Null


\* C30: an authorized invoice has its issue date and a cancelled invoice has its
\* cancellation date.
C30_StatusHasItsDate ==
    \A r \in nfse :
        /\ r.status = "authorized" => r.issuedAt # Null
        /\ r.status = "cancelled" => r.cancelledAt # Null

====
